---- MODULE Spec2Model ----
(***************************************************************************)
(* Model of the extraction / ranking pipeline of app.py: text utilities,   *)
(* state and company detection, tagging and scoring, identity hashing,     *)
(* near-duplicate removal, the per-source fetch loop and the selection of  *)
(* the dashboard's two tables.                                             *)
(*                                                                         *)
(* Texts are sequences of one-character strings.  Hangul syllables are     *)
(* written romanised with the prefix k_ (k_jin k_chul is the keyword       *)
(* "jin-chul"); each is one character of the text.                         *)
(***************************************************************************)
EXTENDS Integers, Sequences, FiniteSets, TLC

VARIABLES
    pc,             \* position of the operation under way
    title,          \* text argument of the function being called
    source_url,     \* host of the source URL
    company_plain,  \* company argument of importance_score
    ret,            \* value returned by the function being called
    scored,         \* rows scored so far (importance_score)
    dedup,          \* the exact-dedup map of fetch_us_gov_only: key -> row
    puts,           \* rows put into the exact-dedup map so far
    rows,           \* argument of dedup_similar
    kept,           \* result of dedup_similar
    df,             \* data frame handed to the pick_* helpers
    top_companies,  \* priority list handed to the pick_* helpers
    top,            \* result of pick_top_company_one_each
    other,          \* result of pick_other
    other_n,        \* parameter n of pick_other
    sources,        \* argument of fetch_us_gov_only
    si,             \* index of the source the fetch loop is at
    items,          \* items of fetch_us_gov_only: what the page of the source yields
    ii,             \* index of the item the inner loop is at
    raw_rows,       \* raw_rows of fetch_us_gov_only
    fetched,        \* value returned by fetch_us_gov_only
    now,            \* the UTC clock, in seconds since the epoch
    tick,           \* seconds the clock advances while a source or item is handled
    built           \* history: for every raw row, its dt and the clock when it was built

vars == <<pc, title, source_url, company_plain, ret, scored, dedup, puts, rows,
          kept, df, top_companies, top, other, other_n, sources, si, items, ii, raw_rows,
          fetched, now, tick, built>>

textVars  == <<title, source_url, company_plain, ret>>
scoreVars == <<scored>>
idVars    == <<dedup, puts>>
dedupVars == <<rows, kept>>
pickVars  == <<df, top_companies, top, other, other_n>>
fetchVars == <<sources, si, items, ii, raw_rows, fetched, now, tick, built>>

None == "None"

(***************************************************************************)
(* Bounds of the model.                                                    *)
(***************************************************************************)
MaxStateTextLen == 4
MaxCompanyTextLen == 4
MaxTagTextLen == 4
MaxScored == 2
MaxDedupRows == 3
MaxIdTextLen == 4
MaxPickRows == 4
MaxSources == 2

(***************************************************************************)
(* Characters and strings.                                                 *)
(***************************************************************************)
Strings(A, n) == UNION {[1..k -> A] : k \in 0..n}

CasePairs ==
    {<<"A","a">>, <<"B","b">>, <<"C","c">>, <<"D","d">>, <<"E","e">>, <<"F","f">>,
     <<"G","g">>, <<"H","h">>, <<"I","i">>, <<"J","j">>, <<"K","k">>, <<"L","l">>,
     <<"M","m">>, <<"N","n">>, <<"O","o">>, <<"P","p">>, <<"Q","q">>, <<"R","r">>,
     <<"S","s">>, <<"T","t">>, <<"U","u">>, <<"V","v">>, <<"W","w">>, <<"X","x">>,
     <<"Y","y">>, <<"Z","z">>}

UpperChars == {p[1] : p \in CasePairs}
LowerChars == {p[2] : p \in CasePairs}
DigitChars == {"0","1","2","3","4","5","6","7","8","9"}
HangulChars ==
    {"k_a","k_ael","k_al","k_ba","k_bae","k_bal","k_be","k_bil","k_bu",
     "k_cha","k_chaek","k_che","k_chul","k_da","k_dae","k_dol","k_e",
     "k_eop","k_gae","k_geon","k_geum","k_geup","k_gi","k_go","k_gong",
     "k_guk","k_gye","k_gyeol","k_gyeong","k_gyu","k_ha","k_hak","k_han",
     "k_hoe","k_hwa","k_hwak","k_hyeon","k_hyeop","k_i","k_in","k_ja",
     "k_jae","k_jang","k_je","k_jeok","k_jeon","k_jeong","k_jeung","k_ji",
     "k_jin","k_jo","k_ju","k_jung","k_ka","k_kae","k_keu","k_kyu","k_ma",
     "k_mae","k_mi","k_mo","k_na","k_ne","k_neo","k_nik","k_no","k_o",
     "k_on","k_pa","k_pan","k_peul","k_ra","k_ri","k_rip","k_ro","k_rok",
     "k_rol","k_ru","k_ryeo","k_sa","k_san","k_sel","k_seol","k_seu",
     "k_si","k_sil","k_sin","k_sip","k_so","k_sok","k_sol","k_su",
     "k_syeon","k_te","k_teu","k_ti","k_to","k_tu","k_u","k_un","k_wi",
     "k_won","k_yak","k_yeon"}
WsChars == {" ", "\t"}

LowerChar(c) == IF c \in UpperChars THEN (CHOOSE p \in CasePairs : p[1] = c)[2] ELSE c
UpperChar(c) == IF c \in LowerChars THEN (CHOOSE p \in CasePairs : p[2] = c)[1] ELSE c

\* str.lower() / str.upper()
Lower(s) == [i \in 1..Len(s) |-> LowerChar(s[i])]
Upper(s) == [i \in 1..Len(s) |-> UpperChar(s[i])]

\* p in t  (substring)
Contains(t, p) ==
    \E i \in 0..(Len(t) - Len(p)) : \A j \in 1..Len(p) : t[i + j] = p[j]

\* s.strip(chars): drop leading and trailing characters of the set cs
RECURSIVE LStrip(_, _)
LStrip(s, cs) == IF s # <<>> /\ Head(s) \in cs THEN LStrip(Tail(s), cs) ELSE s
RECURSIVE RStrip(_, _)
RStrip(s, cs) ==
    IF s # <<>> /\ s[Len(s)] \in cs THEN RStrip(SubSeq(s, 1, Len(s) - 1), cs) ELSE s
Strip(s, cs) == RStrip(LStrip(s, cs), cs)

\* _ws.sub(" ", x): every maximal run of whitespace becomes one space
RECURSIVE CollapseWs(_)
CollapseWs(s) ==
    IF s = <<>> THEN <<>>
    ELSE IF Head(s) \in WsChars
         THEN <<" ">> \o CollapseWs(LStrip(s, WsChars))
         ELSE <<Head(s)>> \o CollapseWs(Tail(s))

\* norm_text: strip, then collapse whitespace runs
norm_text(s) == CollapseWs(Strip(s, WsChars))

(***************************************************************************)
(* STATE DETECTION                                                         *)
(***************************************************************************)
STATE_ABBR == << <<"G","A">>, <<"T","N">>, <<"A","L">>, <<"S","C">>, <<"F","L">> >>

\* a sample of the "states" section of the configuration: code, names
states_cfg ==
    << [code |-> <<"G","A">>, names |-> << <<"k_jo","k_ji","k_a">>, <<"G","A">> >>] >>

\* STATE_ABBR_RE[abbr].search(t): abbr with no upper-case letter or digit
\* directly before or after it  (?<![A-Z0-9])abbr(?![A-Z0-9])
AbbrAt(t, abbr, i) ==
    /\ i + 1 <= Len(t)
    /\ t[i] = abbr[1]
    /\ t[i + 1] = abbr[2]

AbbrReMatchesAt(t, abbr, i) ==
    /\ AbbrAt(t, abbr, i)
    /\ (i = 1 \/ t[i - 1] \notin (UpperChars \cup DigitChars))
    /\ (i + 2 > Len(t) \/ t[i + 2] \notin (UpperChars \cup DigitChars))

AbbrReSearch(t, abbr) == \E i \in 1..Len(t) : AbbrReMatchesAt(t, abbr, i)

\* step 1: the configured long names, case-insensitively, abbreviations skipped
NameHit(tl, n) ==
    LET nn == norm_text(n) IN
    /\ \A k \in 1..Len(STATE_ABBR) : Upper(nn) # STATE_ABBR[k]
    /\ nn # <<>>
    /\ Contains(tl, Lower(nn))

NameStepHits(tl) ==
    {k \in 1..Len(states_cfg) :
        \E j \in 1..Len(states_cfg[k].names) : NameHit(tl, states_cfg[k].names[j])}

AbbrStepHits(t) == {k \in 1..Len(STATE_ABBR) : AbbrReSearch(t, STATE_ABBR[k])}

Elems(q) == {q[i] : i \in 1..Len(q)}

Min(S) == CHOOSE x \in S : \A y \in S : x <= y
Max(S) == CHOOSE x \in S : \A y \in S : x >= y

\* step 3: the host of the source URL.  A host is a sequence of pieces, each a
\* label, a part of a label or a dot: www.tnecd.com is <<"www",".","tnecd",".","com">>
\* and exploregeorgia.org is <<"explore","georgia",".","org">>, so that one host
\* text occurs in another exactly when its pieces do
DomainHint(host) ==
    IF \/ Contains(host, <<"gov",".","georgia",".","gov">>)
       \/ Contains(host, <<"georgia",".","org">>)
        THEN <<"G","A">>
    ELSE IF Contains(host, <<"tnecd",".","com">>) THEN <<"T","N">>
    ELSE IF Contains(host, <<"madeinalabama",".","com">>) THEN <<"A","L">>
    ELSE IF Contains(host, <<"sccommerce",".","com">>) THEN <<"S","C">>
    ELSE IF Contains(host, <<"floridajobs",".","org">>) THEN <<"F","L">>
    ELSE <<"Global">>

\* detect_state_strict; "step" records which return statement was taken
detect_state_strict(text, host) ==
    LET t  == norm_text(text)
        tl == Lower(t)
    IN  IF NameStepHits(tl) # {}
            THEN [value |-> states_cfg[Min(NameStepHits(tl))].code, step |-> "name"]
        ELSE IF AbbrStepHits(t) # {}
            THEN [value |-> STATE_ABBR[Min(AbbrStepHits(t))], step |-> "abbr"]
        ELSE IF DomainHint(host) # <<"Global">>
            THEN [value |-> DomainHint(host), step |-> "domain"]
        ELSE [value |-> <<"Global">>, step |-> "global"]

(***************************************************************************)
(* COMPANY DETECTION                                                       *)
(***************************************************************************)
\* TOP5_ALIASES (canonical name, aliases), in the table's order
TOP5_ALIASES ==
    << [canon |-> <<"k_hyeon","k_dae">>,
        aliases |-> << <<"k_hyeon","k_dae">>,
                       <<"k_hyeon","k_dae","k_cha">>,
                       <<"H","y","u","n","d","a","i">>, <<"k_gi","k_a">>,
                       <<"K","i","a">> >>],
       [canon |-> <<"S","K">>,
        aliases |-> << <<"S","K">>, <<"S","K","k_on">>,
                       <<"S","K"," ","h","y","n","i","x">>,
                       <<"S","K","k_ha","k_i","k_nik","k_seu">>,
                       <<"k_ha","k_i","k_nik","k_seu">>,
                       <<"S","K"," ","I","n","n","o","v","a","t","i","o","n">>,
                       <<"S","K","k_i","k_no","k_be","k_i","k_syeon">> >>],
       [canon |-> <<"L","G">>,
        aliases |-> << <<"L","G">>,
                       <<"L","G","k_e","k_neo","k_ji","k_sol","k_ru","k_syeon">>,
                       <<"L","G"," ","E","n","e","r","g","y"," ","S","o","l","u","t","i","o","n">>,
                       <<"L","G","k_hwa","k_hak">>,
                       <<"L","G"," ","C","h","e","m">> >>],
       [canon |-> <<"k_han","k_hwa">>,
        aliases |-> << <<"k_han","k_hwa">>, <<"H","a","n","w","h","a">>,
                       <<"k_han","k_hwa","k_kyu","k_sel">>,
                       <<"Q","c","e","l","l","s">>,
                       <<"Q"," ","C","E","L","L","S">> >>],
       [canon |-> <<"k_go","k_ryeo","k_a","k_yeon">>,
        aliases |-> << <<"k_go","k_ryeo","k_a","k_yeon">>,
                       <<"K","o","r","e","a"," ","Z","i","n","c">>,
                       <<"K","o","r","e","a","Z","i","n","c">> >>] >>

\* COMPANY_SUFFIX_HINT: the alternatives of the pattern
COMPANY_SUFFIX_HINT ==
    { <<"k_jung","k_gong","k_eop">>, <<"k_geum","k_sok">>,
      <<"k_o","k_to">>, <<"E","P","C">>, <<"k_jeon","k_ja">>,
      <<"k_e","k_neo","k_ji">>, <<"k_hwa","k_hak">>, <<"k_geon","k_seol">>,
      <<"k_mo","k_bil","k_ri","k_ti">>, <<"k_te","k_keu">>,
      <<"k_san","k_eop">>, <<"k_so","k_jae">>, <<"k_jeon","k_gi">>,
      <<"k_ba","k_i","k_o">> }

\* the English company suffixes of step 3-2, lower-cased (the search ignores case)
ENGLISH_SUFFIX ==
    { <<"i","n","c">>, <<"i","n","c",".">>, <<"l","l","c">>, <<"c","o","r","p">>,
      <<"c","o","r","p",".">>, <<"c","o">>, <<"c","o",".">>,
      <<"c","o","m","p","a","n","y">> }

\* STOPWORDS
STOPWORDS ==
    { <<"g","o","v">>, <<"g","o","v",".">>,
      <<"g","o","v","e","r","n","o","r">>, <<"o","f","f","i","c","e">>,
      <<"o","f","f","i","c","i","a","l">>,
      <<"s","t","a","t","e","m","e","n","t">>,
      <<"c","o","m","m","i","s","s","i","o","n","e","r">>,
      <<"d","e","p","u","t","y">>, <<"p","r","e","s","s">>,
      <<"r","e","l","e","a","s","e">>, <<"n","e","w","s">>,
      <<"d","e","p","a","r","t","m","e","n","t">>,
      <<"c","o","m","m","e","r","c","e">>, <<"e","c","o","n","o","m","i","c">>,
      <<"d","e","v","e","l","o","p","m","e","n","t">>,
      <<"a","u","t","h","o","r","i","t","y">>, <<"u","s">>, <<"u",".","s">>,
      <<"u","s","a">>, <<"a","m","e","r","i","c","a">>,
      <<"a","m","e","r","i","c","a","n">>, <<"g","e","o","r","g","i","a">>,
      <<"t","e","n","n","e","s","s","e","e">>, <<"a","l","a","b","a","m","a">>,
      <<"f","l","o","r","i","d","a">>, <<"c","a","r","o","l","i","n","a">>,
      <<"s","o","u","t","h">>, <<"n","o","r","t","h">>, <<"k_mi","k_guk">>,
      <<"k_han","k_guk">>, <<"k_jo","k_ji","k_a">>, <<"k_te","k_ne","k_si">>,
      <<"k_ael","k_ra","k_bae","k_ma">>, <<"k_al","k_ra","k_bae","k_ma">>,
      <<"k_peul","k_ro","k_ri","k_da">>,
      <<"k_sa","k_u","k_seu","k_kae","k_rol","k_ra","k_i","k_na">>,
      <<"k_kae","k_rol","k_ra","k_i","k_na">>, <<"k_ju","k_jeong","k_bu">>,
      <<"k_jeong","k_bu">>, <<"k_wi","k_won","k_hoe">>,
      <<"k_gyeong","k_je","k_gae","k_bal">>, <<"k_ka","k_un","k_ti">>,
      <<"c","o","u","n","t","y">>, <<"c","i","t","y">>,
      <<"s","t","a","t","e">>, <<"i","n","v","e","s","t">>,
      <<"i","n","v","e","s","t","m","e","n","t">>,
      <<"i","n","v","e","s","t","s">>, <<"a","n","n","o","u","n","c","e">>,
      <<"a","n","n","o","u","n","c","e","s">>,
      <<"a","n","n","o","u","n","c","e","d">>,
      <<"e","x","p","a","n","s","i","o","n">>, <<"e","x","p","a","n","d">>,
      <<"c","o","n","t","r","a","c","t">>,
      <<"a","g","r","e","e","m","e","n","t">>,
      <<"f","a","c","i","l","i","t","y">>, <<"p","l","a","n","t">>,
      <<"f","a","c","t","o","r","y">>, <<"k_tu","k_ja">>,
      <<"k_gong","k_jang">>, <<"k_seol","k_rip">>, <<"k_jeung","k_seol">>,
      <<"k_hwak","k_jang">>, <<"k_jin","k_chul">>, <<"k_gye","k_yak">>,
      <<"k_su","k_ju">>, <<"k_gong","k_geup">>, <<"k_che","k_gyeol">>,
      <<"k_hyeop","k_yak">> }

ARTICLES == { <<"t","h","e">>, <<"a">>, <<"a","n">> }

\* the character class [hangul A-Za-z0-9&/.\-] of the token patterns
PunctTokenChars == {"&", "/", ".", "-"}
IsTokenChar(c) ==
    \/ c \in UpperChars \/ c \in LowerChars \/ c \in DigitChars
    \/ c \in PunctTokenChars
    \/ c \in HangulChars

TOKEN_MIN == 2
TOKEN_MAX == 40

\* length of the run of token characters that starts at the head of s
RECURSIVE RunLen(_)
RunLen(s) == IF s # <<>> /\ IsTokenChar(Head(s)) THEN 1 + RunLen(Tail(s)) ELSE 0

\* re.match(r"^([...]{2,40})", t): the greedy leading run, or None
LeadingToken(t) ==
    LET n == RunLen(t) IN
    IF n >= TOKEN_MIN THEN SubSeq(t, 1, IF n > TOKEN_MAX THEN TOKEN_MAX ELSE n) ELSE None

\* re.findall(r"[...]{2,40}", t): left to right, greedy, not overlapping
RECURSIVE FindTokens(_)
FindTokens(s) ==
    IF s = <<>> THEN <<>>
    ELSE LET n == RunLen(s)
             m == IF n > TOKEN_MAX THEN TOKEN_MAX ELSE n
         IN  IF n >= TOKEN_MIN
                 THEN <<SubSeq(s, 1, m)>> \o FindTokens(SubSeq(s, m + 1, Len(s)))
                 ELSE FindTokens(Tail(s))

STRIP_LEADING == {".", ",", ":", "-", "endash", "emdash"}
STRIP_TOKEN   == STRIP_LEADING \cup {"(", ")", "[", "]", "{", "}", "dquote", "'"}

\* mutant of CleanTokens: the stop-word test is left out
RECURSIVE CleanTokensKeepStopwords(_)
CleanTokensKeepStopwords(toks) ==
    IF toks = <<>> THEN <<>>
    ELSE LET tok2 == Strip(Head(toks), STRIP_TOKEN) IN
         IF tok2 = <<>>
             THEN CleanTokensKeepStopwords(Tail(toks))
             ELSE <<tok2>> \o CleanTokensKeepStopwords(Tail(toks))

\* the loop that fills "cleaned"
RECURSIVE CleanTokens(_)
CleanTokens(toks) ==
    IF toks = <<>> THEN <<>>
    ELSE LET tok2 == Strip(Head(toks), STRIP_TOKEN) IN
         IF tok2 = <<>> \/ Lower(tok2) \in STOPWORDS
             THEN CleanTokens(Tail(toks))
             ELSE <<tok2>> \o CleanTokens(Tail(toks))

EndsWith(s, suf) ==
    Len(s) >= Len(suf) /\ SubSeq(s, Len(s) - Len(suf) + 1, Len(s)) = suf

HasSuffixHint(tok) == \E suf \in COMPANY_SUFFIX_HINT : EndsWith(tok, suf)
HasEnglishSuffix(tok) == \E suf \in ENGLISH_SUFFIX : EndsWith(Lower(tok), suf)

\* the aliases of the table that occur in t, as (entry, alias) positions
AliasHits(t) ==
    UNION { { <<k, j>> : j \in {i \in 1..Len(TOP5_ALIASES[k].aliases) :
                                   /\ TOP5_ALIASES[k].aliases[i] # <<>>
                                   /\ Contains(t, TOP5_ALIASES[k].aliases[i])} } :
            k \in 1..Len(TOP5_ALIASES) }

\* step 2 accepts the leading token
LeadingAccepted(t) ==
    /\ LeadingToken(t) # None
    /\ LET cand == Strip(LeadingToken(t), STRIP_LEADING)
           cl   == Lower(cand)
       IN  cand # <<>> /\ cl \notin STOPWORDS /\ cl \notin ARTICLES

UNIDENTIFIED == <<"k_mi","k_hwak","k_in">>

\* detect_company_from_title; "step" records which return statement was taken
detect_company_from_title(s) ==
    LET t       == norm_text(s)
        cleaned == CleanTokens(FindTokens(t))
        hinted  == {i \in 1..Len(cleaned) : HasSuffixHint(cleaned[i])}
        english == {i \in 1..Len(cleaned) : HasEnglishSuffix(cleaned[i])}
    IN  IF AliasHits(t) # {}
            THEN [value |-> TOP5_ALIASES[Min({p[1] : p \in AliasHits(t)})].canon,
                  step |-> "alias"]
        ELSE IF LeadingAccepted(t)
            THEN [value |-> Strip(LeadingToken(t), STRIP_LEADING), step |-> "leading"]
        ELSE IF hinted # {}
            THEN [value |-> cleaned[Min(hinted)], step |-> "suffix"]
        ELSE IF english # {}
            THEN [value |-> cleaned[Min(english)], step |-> "english"]
        ELSE IF cleaned # <<>>
            THEN [value |-> cleaned[1], step |-> "first"]
        ELSE [value |-> UNIDENTIFIED, step |-> "marker"]


(***************************************************************************)
(* TAG / IMPORTANCE                                                        *)
(***************************************************************************)
INVEST_EN ==
    << <<"i","n","v","e","s","t">>,
       <<"i","n","v","e","s","t","m","e","n","t">>, <<"p","l","a","n","t">>,
       <<"f","a","c","i","l","i","t","y">>,
       <<"e","x","p","a","n","s","i","o","n">>,
       <<"f","a","c","t","o","r","y">>, <<"s","i","t","e">>,
       <<"b","u","i","l","d">>, <<"c","o","n","s","t","r","u","c","t">>,
       <<"m","a","n","u","f","a","c","t","u","r","i","n","g">> >>

INVEST_KO ==
    << <<"k_tu","k_ja">>, <<"k_gong","k_jang">>, <<"k_seol","k_rip">>,
       <<"k_jeung","k_seol">>, <<"k_hwak","k_jang">>, <<"k_jin","k_chul">>,
       <<"k_sin","k_gyu">> >>

DEAL_EN ==
    << <<"c","o","n","t","r","a","c","t">>, <<"d","e","a","l">>,
       <<"s","u","p","p","l","y">>, <<"a","g","r","e","e","m","e","n","t">>,
       <<"a","w","a","r","d">>, <<"w","i","n","s">>,
       <<"s","i","g","n","e","d">> >>

DEAL_KO ==
    << <<"k_su","k_ju">>, <<"k_gye","k_yak">>, <<"k_gong","k_geup">>,
       <<"k_che","k_gyeol">>, <<"k_hyeop","k_yak">>,
       <<"k_pa","k_teu","k_neo","k_sip">> >>

CAPITAL_KO ==
    << <<"k_jeung","k_ja">>, <<"k_chul","k_ja">>, <<"k_gong","k_si">> >>

SALES_KO ==
    << <<"k_pan","k_mae">>, <<"k_gi","k_rok">>, <<"k_dol","k_pa">>,
       <<"k_mae","k_chul">>, <<"k_sil","k_jeok">> >>

TAG_INVEST  == "[singyu tuja]"
TAG_DEAL    == "[suju/gyeyak]"
TAG_CAPITAL == "[jabon/gongsi]"
TAG_SALES   == "[siljeok/panmae]"
TAG_GENERAL == "[juyo]"

\* any(k in text for k in keywords)
AnyIn(text, keywords) == \E k \in 1..Len(keywords) : Contains(text, keywords[k])

\* mutant of classify_tag: the deal keywords are tested before the investment ones
classify_tag_deal_first(text) ==
    LET tl == Lower(text) IN
    IF AnyIn(text, DEAL_KO) \/ AnyIn(tl, DEAL_EN) THEN TAG_DEAL
    ELSE IF AnyIn(text, INVEST_KO) \/ AnyIn(tl, INVEST_EN) THEN TAG_INVEST
    ELSE IF AnyIn(text, CAPITAL_KO) THEN TAG_CAPITAL
    ELSE IF AnyIn(text, SALES_KO) THEN TAG_SALES
    ELSE TAG_GENERAL

classify_tag(text) ==
    LET tl == Lower(text) IN
    IF AnyIn(text, INVEST_KO) \/ AnyIn(tl, INVEST_EN) THEN TAG_INVEST
    ELSE IF AnyIn(text, DEAL_KO) \/ AnyIn(tl, DEAL_EN) THEN TAG_DEAL
    ELSE IF AnyIn(text, CAPITAL_KO) THEN TAG_CAPITAL
    ELSE IF AnyIn(text, SALES_KO) THEN TAG_SALES
    ELSE TAG_GENERAL

\* priority_companies: the default of the configuration
priority_companies ==
    << <<"k_hyeon","k_dae">>, <<"S","K">>, <<"L","G">>, <<"k_han","k_hwa">>,
       <<"k_go","k_ryeo","k_a","k_yeon">> >>

InList(x, list) == \E k \in 1..Len(list) : list[k] = x

\* mutant of importance_score: the priority weight is below the top tag weight
importance_score_low_priority(text, company) ==
    LET tag == classify_tag(text) IN
    (IF InList(company, priority_companies) THEN 30 ELSE 0)
    + (IF tag = TAG_INVEST THEN 35
       ELSE IF tag = TAG_DEAL THEN 25
       ELSE IF tag = TAG_CAPITAL THEN 20
       ELSE IF tag = TAG_SALES THEN 15
       ELSE 5)

importance_score(text, company) ==
    LET tag == classify_tag(text) IN
    (IF InList(company, priority_companies) THEN 100 ELSE 0)
    + (IF tag = TAG_INVEST THEN 35
       ELSE IF tag = TAG_DEAL THEN 25
       ELSE IF tag = TAG_CAPITAL THEN 20
       ELSE IF tag = TAG_SALES THEN 15
       ELSE 5)

(***************************************************************************)
(* SIGNATURE of a title                                                    *)
(***************************************************************************)
\* \w of the patterns: letters, digits, underscore
WordChars == UpperChars \cup LowerChars \cup DigitChars \cup HangulChars \cup {"_"}

\* the characters _punct leaves in place: [0-9A-Za-z hangul space . : / _ -]
PunctKept ==
    UpperChars \cup LowerChars \cup DigitChars \cup HangulChars
        \cup {" ", ".", ":", "/", "_", "-"}

\* s.replace(old, new), old not empty: left to right, not overlapping
RECURSIVE Replace(_, _, _)
Replace(s, old, new) ==
    IF Len(s) < Len(old) THEN s
    ELSE IF SubSeq(s, 1, Len(old)) = old
        THEN new \o Replace(SubSeq(s, Len(old) + 1, Len(s)), old, new)
        ELSE <<Head(s)>> \o Replace(Tail(s), old, new)

\* last position of the run of digits that starts at i
RECURSIVE DigitRunEnd(_, _)
DigitRunEnd(s, i) ==
    IF i + 1 <= Len(s) /\ s[i + 1] \in DigitChars THEN DigitRunEnd(s, i + 1) ELSE i

\* \b after position e (s[e] is a digit)
BoundaryAfter(s, e) == e = Len(s) \/ s[e + 1] \notin WordChars

\* where the greedy (?:[.,]\d+)* \b ends, given the match so far ends at e;
\* 0 when no end satisfies the final \b
RECURSIVE DigitsTail(_, _)
DigitsTail(s, e) ==
    LET more == e + 2 <= Len(s) /\ s[e + 1] \in {".", ","} /\ s[e + 2] \in DigitChars
        far  == IF more THEN DigitsTail(s, DigitRunEnd(s, e + 2)) ELSE 0
    IN  IF far # 0 THEN far
        ELSE IF BoundaryAfter(s, e) THEN e
        ELSE 0

\* end of the match of _digits at position i, 0 when it does not match there
DigitsMatchEnd(s, i) ==
    IF s[i] \in DigitChars /\ (i = 1 \/ s[i - 1] \notin WordChars)
        THEN DigitsTail(s, DigitRunEnd(s, i))
        ELSE 0

\* _digits.sub(" ", s)
RECURSIVE DigitsSubFrom(_, _)
DigitsSubFrom(s, i) ==
    IF i > Len(s) THEN <<>>
    ELSE LET e == DigitsMatchEnd(s, i) IN
         IF e # 0 THEN <<" ">> \o DigitsSubFrom(s, e + 1)
         ELSE <<s[i]>> \o DigitsSubFrom(s, i + 1)

DigitsSub(s) == DigitsSubFrom(s, 1)

\* _punct.sub(" ", s): every run of other characters becomes one space
RECURSIVE PunctSub(_)
PunctSub(s) ==
    IF s = <<>> THEN <<>>
    ELSE IF Head(s) \notin PunctKept
         THEN <<" ">> \o PunctSub(LStrip(s, {c \in Elems(s) : c \notin PunctKept}))
         ELSE <<Head(s)>> \o PunctSub(Tail(s))

\* s.split(): the words between runs of whitespace
RECURSIVE Split(_)
Split(s) ==
    LET t == LStrip(s, WsChars) IN
    IF t = <<>> THEN <<>>
    ELSE LET n == CHOOSE k \in 1..Len(t) :
                      /\ \A j \in 1..k : t[j] \notin WsChars
                      /\ (k = Len(t) \/ t[k + 1] \in WsChars)
         IN  <<SubSeq(t, 1, n)>> \o Split(SubSeq(t, n + 1, Len(t)))

title_signature(t, company) ==
    LET s0 == norm_text(t)
        s1 == IF company # <<>> THEN Replace(s0, company, <<" ">>) ELSE s0
        s2 == PunctSub(DigitsSub(s1))
        s3 == Lower(norm_text(s2))
        toks == Split(s3)
    IN  {toks[i] : i \in {j \in 1..Len(toks) :
                              toks[j] \notin STOPWORDS /\ Len(toks[j]) >= 2}}

(***************************************************************************)
(* IDENTITY HASH and the exact-dedup map                                   *)
(***************************************************************************)
SEP == <<"|", "|">>

\* mutant of make_id: the title and the url are hashed as given
make_id_raw(provider, t, u) == [sha256 |-> provider \o SEP \o t \o SEP \o u]

\* make_id: SHA-256 of provider||norm_text(title)||norm_text(url).  The digest
\* is represented by the string it is computed from: SHA-256 is taken to be
\* collision-free, so two digests are equal exactly when those strings are.
make_id(provider, t, u) ==
    [sha256 |-> provider \o SEP \o norm_text(t) \o SEP \o norm_text(u)]

US_GOV == <<"U","S","_","G","O","V">>

\* dedup[key] = r on a dict kept as the sequence of its (key, value) items: a
\* new key is added at the end, an existing key keeps its place and gets the
\* new value
DictPut(d, key, r) ==
    IF \E i \in 1..Len(d) : d[i].key = key
        THEN [i \in 1..Len(d) |-> IF d[i].key = key THEN [key |-> key, value |-> r] ELSE d[i]]
        ELSE Append(d, [key |-> key, value |-> r])

\* list(dedup.values())
DictValues(d) == [i \in 1..Len(d) |-> d[i].value]

(***************************************************************************)
(* DEDUP: near-duplicate removal (Jaccard)                                 *)
(***************************************************************************)
\* SIMILARITY_THRESHOLD = 0.86, in hundredths
SIMILARITY_THRESHOLD_PCT == 86

\* mutant of jaccard: an empty set is never similar to anything
jaccard_empty_is_zero(a, b) ==
    IF a = {} \/ b = {} THEN <<0, 1>>
    ELSE <<Cardinality(a \cap b), Cardinality(a \cup b)>>

\* jaccard, as the fraction <<numerator, denominator>>
jaccard(a, b) ==
    IF a = {} /\ b = {} THEN <<1, 1>>
    ELSE IF a = {} \/ b = {} THEN <<0, 1>>
    ELSE <<Cardinality(a \cap b), Cardinality(a \cup b)>>

\* jaccard(sig, ks) >= SIMILARITY_THRESHOLD
IsNearDuplicate(a, b) ==
    LET q == jaccard(a, b) IN q[1] * 100 >= SIMILARITY_THRESHOLD_PCT * q[2]

\* the sort key (r["_when_sort"], r["_score"]) compared as tuples
KeyGreater(a, b) ==
    \/ a._when_sort > b._when_sort
    \/ (a._when_sort = b._when_sort /\ a._score > b._score)

KeyEqual(a, b) == a._when_sort = b._when_sort /\ a._score = b._score

\* mutant of SortedDesc: reverse=True is left out (ascending, stable)
SortedAsc(rs) ==
    LET pos(i) == Cardinality({j \in 1..Len(rs) :
                       \/ KeyGreater(rs[i], rs[j])
                       \/ (KeyEqual(rs[j], rs[i]) /\ j < i)}) + 1
    IN  [p \in 1..Len(rs) |-> rs[CHOOSE i \in 1..Len(rs) : pos(i) = p]]

\* sorted(rows, key=..., reverse=True): descending by key, rows of equal key in
\* their original order (the sort is stable, also when reversed)
SortedDesc(rs) ==
    LET pos(i) == Cardinality({j \in 1..Len(rs) :
                       \/ KeyGreater(rs[j], rs[i])
                       \/ (KeyEqual(rs[j], rs[i]) /\ j < i)}) + 1
    IN  [p \in 1..Len(rs) |-> rs[CHOOSE i \in 1..Len(rs) : pos(i) = p]]

\* mutant of the loop: a row is compared with the last kept row only
RECURSIVE DedupLoopLastOnly(_, _)
DedupLoopLastOnly(todo, k) ==
    IF todo = <<>> THEN k
    ELSE LET r   == Head(todo)
             dup == k # <<>> /\ IsNearDuplicate(r._sig, k[Len(k)]._sig)
         IN  DedupLoopLastOnly(Tail(todo), IF dup THEN k ELSE Append(k, r))

\* the loop over rows_sorted: k is kept so far
RECURSIVE DedupLoop(_, _)
DedupLoop(todo, k) ==
    IF todo = <<>> THEN k
    ELSE LET r   == Head(todo)
             dup == \E i \in 1..Len(k) : IsNearDuplicate(r._sig, k[i]._sig)
         IN  DedupLoop(Tail(todo), IF dup THEN k ELSE Append(k, r))

dedup_similar(rs) == DedupLoop(SortedDesc(rs), <<>>)

(***************************************************************************)
(* DISPLAY HELPERS                                                         *)
(***************************************************************************)
TOP_COMPANY_MAX == 10
OTHER_MAX == 30

ICONS == {"crown", "gem"}

\* icon_for_company, with the priority list in use
icon_for_company(company, priority) == IF InList(company, priority) THEN "crown" ELSE "gem"

\* company_display = f"{icon} {company_plain}"
company_display(company, priority) == <<icon_for_company(company, priority), " ">> \o company

\* plain_company: the icons removed, then norm_text
plain_company(display) == norm_text(SelectSeq(display, LAMBDA c : c \notin ICONS))

\* df.head(n)
HeadRows(d, n) == SubSeq(d, 1, IF Len(d) < n THEN Len(d) ELSE n)

\* mutant of GroupHead: the last row of every group (tail(1))
GroupTail(d) ==
    LET idx == {i \in 1..Len(d) :
                   \A j \in 1..Len(d) :
                       (j > i) => plain_company(d[j].name) # plain_company(d[i].name)}
        pos(i) == Cardinality({j \in idx : j < i}) + 1
    IN  [p \in 1..Cardinality(idx) |-> d[CHOOSE i \in idx : pos(i) = p]]

\* groupby("_plain").head(1): the first row of every group, in d's order
GroupHead(d) ==
    LET idx == {i \in 1..Len(d) :
                   \A j \in 1..Len(d) :
                       (j < i) => plain_company(d[j].name) # plain_company(d[i].name)}
        pos(i) == Cardinality({j \in idx : j < i}) + 1
    IN  [p \in 1..Cardinality(idx) |-> d[CHOOSE i \in idx : pos(i) = p]]

\* order = {c: i for i, c in enumerate(top_companies)}; order.get(x, 9999)
OrderOf(c, tops) ==
    IF InList(c, tops) THEN Max({i \in 1..Len(tops) : tops[i] = c}) - 1 ELSE 9999

\* sort_values("_order"): ascending; the rows sorted here have distinct keys
\* (one row per company), rows of equal key are left in d's order
SortByOrder(d, tops) ==
    LET key(i) == OrderOf(plain_company(d[i].name), tops)
        pos(i) == Cardinality({j \in 1..Len(d) :
                       key(j) < key(i) \/ (key(j) = key(i) /\ j < i)}) + 1
    IN  [p \in 1..Len(d) |-> d[CHOOSE i \in 1..Len(d) : pos(i) = p]]

pick_top_company_one_each(d, tops) ==
    IF d = <<>> THEN d
    ELSE LET t == SelectSeq(d, LAMBDA r : InList(plain_company(r.name), tops))
         IN  IF t = <<>> THEN t
             ELSE HeadRows(SortByOrder(GroupHead(t), tops), TOP_COMPANY_MAX)

pick_other(d, tops, n) ==
    IF d = <<>> THEN d
    ELSE HeadRows(SelectSeq(d, LAMBDA r : ~InList(plain_company(r.name), tops)), n)

(***************************************************************************)
(* FETCH: dates, links and the rows of fetch_us_gov_only                   *)
(***************************************************************************)
\* None where the code has a text, and None where it has an object
NoText == <<None>>
Absent == [none |-> TRUE]

DigitOrder == <<"0","1","2","3","4","5","6","7","8","9">>
DigitVal(c) == (CHOOSE i \in 1..10 : DigitOrder[i] = c) - 1

\* int() of a text of digits
RECURSIVE Number(_)
Number(s) == IF s = <<>> THEN 0 ELSE 10 * Number(SubSeq(s, 1, Len(s) - 1)) + DigitVal(s[Len(s)])

AllDigits(s, ps) == \A i \in ps : s[i] \in DigitChars

\* DOT_DATE_RX.fullmatch(date_text): dd.dd.dddd
DOT_DATE_RX_fullmatch(s) ==
    /\ Len(s) = 10
    /\ AllDigits(s, {1, 2, 4, 5, 7, 8, 9, 10})
    /\ s[3] = "." /\ s[6] = "."

\* mm, dd, yyyy = date_text.split("."); f"{yyyy}-{mm}-{dd}"
DotToIso(s) == SubSeq(s, 7, 10) \o <<"-">> \o SubSeq(s, 1, 2) \o <<"-">> \o SubSeq(s, 4, 5)

IsLeap(y) == (y % 4 = 0 /\ y % 100 # 0) \/ y % 400 = 0

DaysInMonth(y, m) ==
    IF m = 2 THEN (IF IsLeap(y) THEN 29 ELSE 28)
    ELSE IF m \in {4, 6, 9, 11} THEN 30
    ELSE 31

\* the month names of MONTH_RX_LONG and MONTH_RX_SHORT
MONTH_NAMES_LONG ==
    << <<"J","a","n","u","a","r","y">>,
       <<"F","e","b","r","u","a","r","y">>, <<"M","a","r","c","h">>,
       <<"A","p","r","i","l">>, <<"M","a","y">>, <<"J","u","n","e">>,
       <<"J","u","l","y">>, <<"A","u","g","u","s","t">>,
       <<"S","e","p","t","e","m","b","e","r">>,
       <<"O","c","t","o","b","e","r">>,
       <<"N","o","v","e","m","b","e","r">>,
       <<"D","e","c","e","m","b","e","r">> >>

MONTH_NAMES_SHORT ==
    << <<"J","a","n">>, <<"F","e","b">>, <<"M","a","r">>,
       <<"A","p","r">>, <<"M","a","y">>, <<"J","u","n">>,
       <<"J","u","l">>, <<"A","u","g">>, <<"S","e","p">>,
       <<"O","c","t">>, <<"N","o","v">>, <<"D","e","c">> >>

StartsAt(s, i, p) == i + Len(p) - 1 <= Len(s) /\ SubSeq(s, i, i + Len(p) - 1) = p

\* number of whitespace characters from position i on
RECURSIVE WsRun(_, _)
WsRun(s, i) == IF i <= Len(s) /\ s[i] \in WsChars THEN 1 + WsRun(s, i + 1) ELSE 0

\* \d{4} from position y on: where it ends, 0 when it does not match
YearEnd(s, y) ==
    IF y + 3 <= Len(s) /\ \A q \in y..(y + 3) : s[q] \in DigitChars THEN y + 3 ELSE 0

\* \s+\d{4} from position i on
WsYearEnd(s, i) == IF WsRun(s, i) = 0 THEN 0 ELSE YearEnd(s, i + WsRun(s, i))

\* number of digits of \d{1,2} at position i when a comma follows them, else 0
DayDigits(s, i) ==
    IF i + 1 <= Len(s) /\ s[i] \in DigitChars /\ s[i + 1] = "," THEN 1
    ELSE IF /\ i + 2 <= Len(s)
            /\ s[i] \in DigitChars /\ s[i + 1] \in DigitChars
            /\ s[i + 2] = "," THEN 2
    ELSE 0

\* \d{1,2},\s+\d{4} from position i on, the day having n digits
DayYearEnd(s, i, n) == IF n = 0 THEN 0 ELSE WsYearEnd(s, i + n + 1)

\* \s+\d{1,2},\s+\d{4} from position i on
WsDayYearEnd(s, i) ==
    IF WsRun(s, i) = 0 THEN 0
    ELSE DayYearEnd(s, i + WsRun(s, i), DayDigits(s, i + WsRun(s, i)))

\* where (name)\s+\d{1,2},\s+\d{4} ends when it matches at position i with the
\* k-th name, 0 when it does not
MonthDateEnd(s, i, names, k) ==
    IF ~StartsAt(s, i, names[k]) THEN 0 ELSE WsDayYearEnd(s, i + Len(names[k]))

\* year, month and day of a text that is such a date from end to end, the day
\* starting at position i; the k-th name is month k, in the long and in the
\* short list
MonthDateFields(s, k, i) ==
    [y |-> Number(SubSeq(s, Len(s) - 3, Len(s))),
     m |-> ((k - 1) % 12) + 1,
     d |-> Number(SubSeq(s, i, i + DayDigits(s, i) - 1))]

\* the date of the text read with the first name of ks
MonthDateAt(s, names, ks) ==
    IF ks = {} THEN Absent
    ELSE MonthDateFields(s, Min(ks),
                         Len(names[Min(ks)]) + 1 + WsRun(s, Len(names[Min(ks)]) + 1))

\* the date a text holds if it is, from end to end, a month name, a day, a
\* comma and a year ("February 4, 2026", "Feb 4, 2026"), else Absent
MonthDateOf(s, names) ==
    MonthDateAt(s, names,
                {k \in 1..Len(names) : Len(s) > 0 /\ MonthDateEnd(s, 1, names, k) = Len(s)})

\* an impossible month or day raises
ValidDate(dt) ==
    IF dt = Absent THEN Absent
    ELSE IF dt.y >= 1 /\ dt.m \in 1..12 /\ dt.d \in 1..DaysInMonth(dt.y, dt.m) THEN dt
    ELSE Absent

\* yyyy-mm-dd
IsIsoDate(s) ==
    /\ Len(s) = 10
    /\ AllDigits(s, {1, 2, 3, 4, 6, 7, 9, 10})
    /\ s[5] = "-" /\ s[8] = "-"

\* dateparser.parse on the date texts of this model: yyyy-mm-dd is read year,
\* month, day, and a month name with day, comma and year as that date; an
\* impossible month or day and a text that holds no date raise, which
\* safe_parse_date turns into None
dateparser_parse(s) ==
    ValidDate(IF IsIsoDate(s)
                  THEN [y |-> Number(SubSeq(s, 1, 4)), m |-> Number(SubSeq(s, 6, 7)),
                        d |-> Number(SubSeq(s, 9, 10))]
              ELSE MonthDateOf(s, MONTH_NAMES_LONG \o MONTH_NAMES_SHORT))

\* safe_parse_date: None for an empty text and for a text that does not parse;
\* the date is at 00:00 UTC
safe_parse_date(s) == IF s = <<>> THEN Absent ELSE dateparser_parse(s)

\* the dt of an item of the page
ItemDate(date_text) ==
    IF date_text = NoText \/ date_text = <<>> THEN Absent
    ELSE safe_parse_date(IF DOT_DATE_RX_fullmatch(date_text) THEN DotToIso(date_text)
                         ELSE date_text)

\* days from 1970-01-01 to the date (proleptic Gregorian calendar)
DaysFromCivil(dt) ==
    LET y   == IF dt.m <= 2 THEN dt.y - 1 ELSE dt.y
        era == y \div 400
        yoe == y - era * 400
        mp  == IF dt.m > 2 THEN dt.m - 3 ELSE dt.m + 9
        doy == (153 * mp + 2) \div 5 + dt.d - 1
        doe == yoe * 365 + yoe \div 4 - yoe \div 100 + doy
    IN  era * 146097 + doe - 719468

\* the date of a day counted from 1970-01-01
CivilFromDays(z0) ==
    LET z   == z0 + 719468
        era == z \div 146097
        doe == z - era * 146097
        yoe == (doe - doe \div 1460 + doe \div 36524 - doe \div 146096) \div 365
        doy == doe - (365 * yoe + yoe \div 4 - yoe \div 100)
        mp  == (5 * doy + 2) \div 153
        d   == doy - (153 * mp + 2) \div 5 + 1
        m   == IF mp < 10 THEN mp + 3 ELSE mp - 9
        y   == yoe + era * 400
    IN  [y |-> IF m <= 2 THEN y + 1 ELSE y, m |-> m, d |-> d]

DAY == 86400

\* pd.Timedelta(days=3650)
UNDATED_AGE_DAYS == 3650

\* _when_sort, in seconds since the epoch: the parsed date, or for a row
\* without one the clock minus 3650 days
WhenSort(dt, clock) ==
    IF dt = Absent THEN clock - UNDATED_AGE_DAYS * DAY ELSE DaysFromCivil(dt) * DAY

\* when_sort.strftime("%Y.%m.%d"), as the date it prints
Published(when_sort) == CivilFromDays(when_sort \div DAY)

\* the text of a URL [host, path]
UrlText(u) == <<"https://">> \o u.host \o u.path

\* urlparse(url).netloc.lower() of a URL of the model, whose hosts are lower case
Netloc(u) == u.host

(***************************************************************************)
(* SOURCE-SPECIFIC PARSERS.  A page is what BeautifulSoup finds in it: the *)
(* a[href] elements of main (or of the document) in document order, each   *)
(* with its text, the text of its parent and its href, and the article     *)
(* elements, each with its first link and the text of its time tag.  The   *)
(* hrefs are absolute, so urljoin(base_url, href) is the href.             *)
(***************************************************************************)
\* the match at position i with the first name of ks
MatchAt(s, i, names, ks) ==
    IF ks = {} THEN Absent ELSE [from |-> i, to |-> MonthDateEnd(s, i, names, Min(ks))]

\* the match at the leftmost position of hits
FirstHit(s, names, hits) ==
    IF hits = {} THEN Absent
    ELSE MatchAt(s, Min(hits), names,
                 {n \in 1..Len(names) : MonthDateEnd(s, Min(hits), names, n) # 0})

\* MONTH_RX_LONG.search / MONTH_RX_SHORT.search: the leftmost match, as
\* [from, to], or Absent
MonthDateSearch(s, names) ==
    FirstHit(s, names,
             {i \in 1..Len(s) : \E k \in 1..Len(names) : MonthDateEnd(s, i, names, k) # 0})

\* m.group(0) if m else None
Group0(s, m) == IF m = Absent THEN NoText ELSE SubSeq(s, m.from, m.to)

MONTH_RX_LONG_search(s) == MonthDateSearch(s, MONTH_NAMES_LONG)
MONTH_RX_SHORT_search(s) == MonthDateSearch(s, MONTH_NAMES_SHORT)

\* MONTH_RX_LONG.search(ptxt) or MONTH_RX_SHORT.search(ptxt)
MonthLongOrShort(s) ==
    IF MONTH_RX_LONG_search(s) # Absent THEN MONTH_RX_LONG_search(s)
    ELSE MONTH_RX_SHORT_search(s)

\* DOT_DATE_RX.search: the leftmost \b\d{2}\.\d{2}\.\d{4}\b
DOT_DATE_RX_search(s) ==
    LET hits == {i \in 1..(Len(s) - 9) :
                    /\ DOT_DATE_RX_fullmatch(SubSeq(s, i, i + 9))
                    /\ (i = 1 \/ s[i - 1] \notin WordChars)
                    /\ (i + 9 = Len(s) \/ s[i + 10] \notin WordChars)}
    IN  IF hits = {} THEN Absent ELSE [from |-> Min(hits), to |-> Min(hits) + 9]

\* _is_probably_article_url
is_probably_article_url(u) ==
    LET path == Lower(u.path)
    IN  /\ ~EndsWith(path, <<".","p","d","f">>)
        /\ ~Contains(path, <<"/","d","o","c","s","/">>)
        /\ ~Contains(path, <<"/","d","e","f","a","u","l","t","-","s","o","u","r","c","e","/">>)

\* re.search(r"/press-releases/\d{4}-\d{2}-\d{2}/", full_url)
PressReleaseDatePath(t) ==
    \E i \in 1..Len(t) :
        /\ StartsAt(t, i, <<"/","p","r","e","s","s","-","r","e","l","e","a","s","e","s","/">>)
        /\ i + 26 <= Len(t)
        /\ \A q \in {16, 17, 18, 19, 21, 22, 24, 25} : t[i + q] \in DigitChars
        /\ t[i + 20] = "-" /\ t[i + 23] = "-" /\ t[i + 26] = "/"

Item(t, u, d) == [title |-> t, link |-> u, date_text |-> d]

Href(a) == UrlText(a.url)
AnchorText(a) == norm_text(a.text)
ParentText(a) == norm_text(a.parent_text)

\* [OneItem(a) for a in anchors if Keeps(a)], for each loop of the parsers
GaGovKeeps(a) ==
    /\ Contains(Href(a), <<"/","p","r","e","s","s","-","r","e","l","e","a","s","e","s","/">>)
    /\ PressReleaseDatePath(Href(a))
    /\ is_probably_article_url(a.url)
    /\ AnchorText(a) # <<>> /\ Len(AnchorText(a)) >= 12

GaGovItem(a) ==
    LET text      == AnchorText(a)
        date_text == Group0(text, MONTH_RX_LONG_search(text))
        headline  == IF date_text # NoText
                         THEN Strip(Replace(text, date_text, <<>>), WsChars)
                         ELSE text
    IN  Item(headline, a.url, date_text)

READ_MORE == { <<"r","e","a","d"," ","m","o","r","e">>, <<"l","e","a","r","n"," ","m","o","r","e">> }

GeorgiaOrgText(a) ==
    IF AnchorText(a) = <<>> \/ Lower(AnchorText(a)) \in READ_MORE
        THEN ParentText(a)
        ELSE AnchorText(a)

GeorgiaOrgItem(a) ==
    LET text      == GeorgiaOrgText(a)
        date_text == Group0(text, MONTH_RX_SHORT_search(text))
        headline  == IF date_text # NoText
                         THEN Strip(Replace(Replace(text, date_text, <<>>),
                                            <<"R","e","a","d"," ","M","o","r","e">>, <<>>), WsChars)
                         ELSE text
    IN  Item(headline, a.url, date_text)

GeorgiaOrgKeeps(a) ==
    /\ Contains(Href(a), <<"/","p","r","e","s","s","-","r","e","l","e","a","s","e","s">>)
    /\ is_probably_article_url(a.url)
    /\ Len(GeorgiaOrgItem(a).title) >= 12

NewsLinkKeeps(a) ==
    /\ Contains(Href(a), <<"/","n","e","w","s","/">>)
    /\ is_probably_article_url(a.url)
    /\ Len(AnchorText(a)) >= 10

TnecdItem(a) ==
    Item(AnchorText(a), a.url, Group0(ParentText(a), DOT_DATE_RX_search(ParentText(a))))

UndatedItem(a) == Item(AnchorText(a), a.url, NoText)

MonthDatedItem(a) ==
    Item(AnchorText(a), a.url, Group0(ParentText(a), MonthLongOrShort(ParentText(a))))

ScCommerceKeeps(a) ==
    /\ Contains(Lower(a.url.path), <<"/","n","e","w","s">>)
    /\ is_probably_article_url(a.url)
    /\ Len(AnchorText(a)) >= 10

FloridaJobsKeeps(a) ==
    /\ is_probably_article_url(a.url)
    /\ Contains(Lower(a.url.path), <<"/","n","e","w","s","-","c","e","n","t","e","r">>)
    /\ Len(AnchorText(a)) >= 10

ArticleKeeps(art) ==
    /\ art.a # Absent
    /\ AnchorText(art.a) # <<>>
    /\ is_probably_article_url(art.a.url)
    /\ Len(AnchorText(art.a)) >= 10

ArticleItem(art) ==
    Item(AnchorText(art.a), art.a.url,
         IF art.time = NoText THEN NoText ELSE norm_text(art.time))

AnyLinkKeeps(a) ==
    /\ AnchorText(a) # <<>>
    /\ Len(AnchorText(a)) >= 10
    /\ is_probably_article_url(a.url)

\* the "Dedup + cap" loop: out is the list built so far
RECURSIVE DedupCap(_, _, _)
DedupCap(its, out, max_items) ==
    IF its = <<>> \/ (out # <<>> /\ Len(out) >= max_items) THEN out
    ELSE LET it   == Head(its)
             seen == \E i \in 1..Len(out) : out[i].title = it.title /\ out[i].link = it.link
         IN  DedupCap(Tail(its), IF seen THEN out ELSE Append(out, it), max_items)

\* the items list before "Dedup + cap": the branch is chosen by the host
ParsedItems(page, host) ==
    LET Of(els, Keeps(_), OneItem(_)) ==
            LET sel == SelectSeq(els, Keeps) IN [i \in 1..Len(sel) |-> OneItem(sel[i])]
    IN  IF Contains(host, <<"gov",".","georgia",".","gov">>)
            THEN Of(page.anchors, GaGovKeeps, GaGovItem)
        ELSE IF Contains(host, <<"georgia",".","org">>)
            THEN Of(page.anchors, GeorgiaOrgKeeps, GeorgiaOrgItem)
        ELSE IF Contains(host, <<"tnecd",".","com">>)
            THEN IF Of(page.anchors, NewsLinkKeeps, TnecdItem) # <<>>
                     THEN Of(page.anchors, NewsLinkKeeps, TnecdItem)
                     ELSE Of(page.anchors, NewsLinkKeeps, UndatedItem)
        ELSE IF Contains(host, <<"madeinalabama",".","com">>)
            THEN Of(page.anchors, NewsLinkKeeps, MonthDatedItem)
        ELSE IF Contains(host, <<"sccommerce",".","com">>)
            THEN Of(page.anchors, ScCommerceKeeps, MonthDatedItem)
        ELSE IF Contains(host, <<"floridajobs",".","org">>)
            THEN Of(page.anchors, FloridaJobsKeeps, MonthDatedItem)
        ELSE IF Of(page.articles, ArticleKeeps, ArticleItem) # <<>>
            THEN Of(page.articles, ArticleKeeps, ArticleItem)
        ELSE Of(page.anchors, AnyLinkKeeps, UndatedItem)

MAX_ITEMS == 200

guess_items_from_page(page, base_url, max_items) ==
    DedupCap(ParsedItems(page, Netloc(base_url)), <<>>, max_items)

\* the external-link test of the inner loop
IsExternal(src, item) ==
    /\ ~src.allow_external
    /\ Netloc(src.url) # <<>>
    /\ Netloc(item.link) # <<>>
    /\ ~Contains(Netloc(item.link), Netloc(src.url))

\* the dict appended to raw_rows for an item
RowOf(src, item, company, when_sort) ==
    [ source    |-> src.name,
      state     |-> detect_state_strict(item.title, Netloc(src.url)).value,
      company   |-> company_display(company, priority_companies),
      published |-> Published(when_sort),
      content   |-> <<classify_tag(item.title), " ">> \o item.title,
      link      |-> UrlText(item.link),
      _score    |-> importance_score(item.title, company),
      _when_sort |-> when_sort,
      _sig      |-> title_signature(item.title, company) ]

\* the row of an item, built when the clock reads clock
BuildRow(src, item, clock) ==
    RowOf(src, item, detect_company_from_title(item.title).value,
          WhenSort(ItemDate(item.date_text), clock))

\* the try block of a source succeeded
FetchSucceeded(src) == src.response = "ok"

\* mutant of AfterException: the exception ends the loop over the sources
AfterExceptionAbort(i, n) == n + 1

\* "except Exception: continue": the loop goes on with the next source
AfterException(i, n) == i + 1

\* dedup = {}; for r in raw_rows: dedup[make_id(...)] = r
RECURSIVE ExactDedup(_, _)
ExactDedup(rs, d) ==
    IF rs = <<>> THEN d
    ELSE ExactDedup(Tail(rs),
                    DictPut(d, make_id(US_GOV, Head(rs).content, Head(rs).link), Head(rs)))

\* the statements after the loop over the sources
FinishRows(rs) == SortedDesc(dedup_similar(DictValues(ExactDedup(rs, <<>>))))

(***************************************************************************)
(* Defaults of the variables an operation does not use.                    *)
(***************************************************************************)
TextIdle  == title = <<>> /\ source_url = <<>> /\ company_plain = <<>> /\ ret = None
ScoreIdle == scored = <<>>
IdIdle    == dedup = <<>> /\ puts = <<>>
DedupIdle == rows = <<>> /\ kept = <<>>
PickIdle  ==
    df = <<>> /\ top_companies = <<>> /\ top = <<>> /\ other = <<>> /\ other_n = 0
ClockIdle == now = 0 /\ tick = 0 /\ built = <<>>
FetchIdle ==
    /\ sources = <<>> /\ si = 0 /\ items = <<>> /\ ii = 0 /\ raw_rows = <<>> /\ fetched = <<>>
    /\ ClockIdle

(***************************************************************************)
(* detect_state_strict called on every short text and a few source hosts.  *)
(***************************************************************************)
StateAlphabet == {"G","A","L","M","a","1"," ","k_jo","k_ji","k_a"}
StateHosts ==
    { <<"gov",".","georgia",".","gov">>, <<"www",".","tnecd",".","com">>,
      <<"example",".","com">> }

InitState ==
    /\ pc = "call"
    /\ title \in Strings(StateAlphabet, MaxStateTextLen)
    /\ source_url \in StateHosts
    /\ company_plain = <<>>
    /\ ret = None
    /\ ScoreIdle /\ IdIdle /\ DedupIdle /\ PickIdle /\ FetchIdle

DetectState ==
    /\ pc = "call"
    /\ ret' = detect_state_strict(title, source_url)
    /\ pc' = "done"
    /\ UNCHANGED <<title, source_url, company_plain>>
    /\ UNCHANGED <<scoreVars, idVars, dedupVars, pickVars, fetchVars>>

NextState == DetectState

SpecState == InitState /\ [][NextState]_vars

\* every occurrence of abbr in t touches an ASCII letter or a digit
AsciiAlnum == UpperChars \cup LowerChars \cup DigitChars
OnlyEmbedded(t, abbr) ==
    /\ \E i \in 1..Len(t) : AbbrAt(t, abbr, i)
    /\ \A i \in 1..Len(t) :
          AbbrAt(t, abbr, i) =>
              \/ (i > 1 /\ t[i - 1] \in AsciiAlnum)
              \/ (i + 2 <= Len(t) /\ t[i + 2] \in AsciiAlnum)

\* C6: an abbreviation that occurs in the text only next to another letter or
\* digit is never what the abbreviation step returns.
C6_AbbrOnlyIsolated ==
    pc = "done" =>
        \A k \in 1..Len(STATE_ABBR) :
            OnlyEmbedded(norm_text(title), STATE_ABBR[k]) =>
                ~(ret.step = "abbr" /\ ret.value = STATE_ABBR[k])

(***************************************************************************)
(* detect_company_from_title called on every short title.                  *)
(***************************************************************************)
CompanyAlphabet == {"S","K","U","a","n","C","o","."," ","k_jeon","k_ja"}

InitCompany ==
    /\ pc = "call"
    /\ title \in Strings(CompanyAlphabet, MaxCompanyTextLen)
    /\ source_url = <<>> /\ company_plain = <<>> /\ ret = None
    /\ ScoreIdle /\ IdIdle /\ DedupIdle /\ PickIdle /\ FetchIdle

DetectCompany ==
    /\ pc = "call"
    /\ ret' = detect_company_from_title(title)
    /\ pc' = "done"
    /\ UNCHANGED <<title, source_url, company_plain>>
    /\ UNCHANGED <<scoreVars, idVars, dedupVars, pickVars, fetchVars>>

NextCompany == DetectCompany

SpecCompany == InitCompany /\ [][NextCompany]_vars

\* the tokens of t, stated without the scan: maximal runs of token characters
\* of length TOKEN_MIN or more, as (first, last) positions
TokenRuns(t) ==
    {r \in (1..Len(t)) \X (1..Len(t)) :
        /\ r[2] - r[1] + 1 >= TOKEN_MIN
        /\ \A i \in r[1]..r[2] : IsTokenChar(t[i])
        /\ (r[1] = 1 \/ ~IsTokenChar(t[r[1] - 1]))
        /\ (r[2] = Len(t) \/ ~IsTokenChar(t[r[2] + 1]))}

TrimmedRun(t, r) == Strip(SubSeq(t, r[1], r[2]), STRIP_TOKEN)

\* the runs whose trimmed token is non-empty and no stop word
SurvivingRuns(t) ==
    {r \in TokenRuns(t) : TrimmedRun(t, r) # <<>> /\ Lower(TrimmedRun(t, r)) \notin STOPWORDS}

FirstRun(R) == CHOOSE r \in R : \A q \in R : r[1] <= q[1]

AliasOccurs(t) ==
    \E k \in 1..Len(TOP5_ALIASES) : \E j \in 1..Len(TOP5_ALIASES[k].aliases) :
        Contains(t, TOP5_ALIASES[k].aliases[j])

\* C7: detect_company_from_title always returns a non-empty name; the tiers are
\* tried in order (alias, leading token, suffix-hinted token, first surviving
\* token); the last-resort marker is returned only when no alias occurs and no
\* token survives the stop-word filter.
C7_CompanyTiers ==
    pc = "done" =>
        LET t    == norm_text(title)
            surv == SurvivingRuns(t)
            hint == {r \in surv : HasSuffixHint(TrimmedRun(t, r))}
            eng  == {r \in surv : HasEnglishSuffix(TrimmedRun(t, r))}
        IN  /\ ret.value # <<>>
            /\ ret.step = "marker" <=> (~AliasOccurs(t) /\ surv = {})
            /\ ret.step = "marker" => ret.value = UNIDENTIFIED
            /\ AliasOccurs(t) <=> ret.step = "alias"
            /\ ret.step = "alias" =>
                   \E k \in 1..Len(TOP5_ALIASES) :
                       /\ ret.value = TOP5_ALIASES[k].canon
                       /\ \E j \in 1..Len(TOP5_ALIASES[k].aliases) :
                              Contains(t, TOP5_ALIASES[k].aliases[j])
            /\ (~AliasOccurs(t) /\ LeadingAccepted(t)) <=> ret.step = "leading"
            /\ ret.step = "leading" =>
                   /\ Lower(ret.value) \notin STOPWORDS
                   /\ \E n \in 1..Len(t) : ret.value = Strip(SubSeq(t, 1, n), STRIP_LEADING)
            /\ (~AliasOccurs(t) /\ ~LeadingAccepted(t) /\ hint # {}) <=> ret.step = "suffix"
            /\ ret.step = "suffix" => ret.value = TrimmedRun(t, FirstRun(hint))
            /\ (~AliasOccurs(t) /\ ~LeadingAccepted(t) /\ hint = {} /\ eng # {})
                   <=> ret.step = "english"
            /\ ret.step = "english" => ret.value = TrimmedRun(t, FirstRun(eng))
            /\ ret.step = "first" => ret.value = TrimmedRun(t, FirstRun(surv))

\* a title whose only token is a stop word ends at the marker; so does a title
\* of single characters
C7_Witness ==
    /\ pc = "done"
    /\ ret.step = "marker"
    /\ FindTokens(norm_text(title)) # <<>>

(***************************************************************************)
(* classify_tag called on every short text.                                *)
(***************************************************************************)
TagAlphabet ==
    {"k_jin","k_chul","k_ja","k_mae","k_su","k_ju","k_jeong","k_bu","D","e","a","l"}

InitTag ==
    /\ pc = "call"
    /\ title \in Strings(TagAlphabet, MaxTagTextLen)
    /\ source_url = <<>> /\ company_plain = <<>> /\ ret = None
    /\ ScoreIdle /\ IdIdle /\ DedupIdle /\ PickIdle /\ FetchIdle

ClassifyTag ==
    /\ pc = "call"
    /\ ret' = classify_tag(title)
    /\ pc' = "done"
    /\ UNCHANGED <<title, source_url, company_plain>>
    /\ UNCHANGED <<scoreVars, idVars, dedupVars, pickVars, fetchVars>>

NextTag == ClassifyTag

SpecTag == InitTag /\ [][NextTag]_vars

\* a keyword set of a rule: its Korean words are looked up in the text as it
\* is, its English words in the lower-cased text
RuleMatches(text, rule) == AnyIn(text, rule.ko) \/ AnyIn(Lower(text), rule.en)

\* the tag of the first rule of the list that matches, else the general tag
FirstMatch(text, rules) ==
    LET hits == {k \in 1..Len(rules) : RuleMatches(text, rules[k])} IN
    IF hits = {} THEN TAG_GENERAL ELSE rules[Min(hits)].tag

FourRules ==
    << [tag |-> TAG_INVEST,  ko |-> INVEST_KO,  en |-> INVEST_EN],
       [tag |-> TAG_DEAL,    ko |-> DEAL_KO,    en |-> DEAL_EN],
       [tag |-> TAG_CAPITAL, ko |-> CAPITAL_KO, en |-> <<>>],
       [tag |-> TAG_SALES,   ko |-> SALES_KO,   en |-> <<>>] >>

\* the policy/government set the five-set reading puts first; app.py defines
\* none, so it is taken from the words of its label: jeong-chaek (policy),
\* jeong-bu (government) and their English forms
TAG_POLICY == "[jeongchaek]"
POLICY_KO == << <<"k_jeong","k_chaek">>, <<"k_jeong","k_bu">> >>
POLICY_EN == << <<"p","o","l","i","c","y">>, <<"g","o","v","e","r","n","m","e","n","t">> >>

FiveRules == << [tag |-> TAG_POLICY, ko |-> POLICY_KO, en |-> POLICY_EN] >> \o FourRules

\* C9 as stated: five ordered keyword sets, policy/government first; the first
\* set with a keyword in the text gives the tag, else the general tag.
C9_FiveOrderedSets == pc = "done" => ret = FirstMatch(title, FiveRules)

\* C9 as amended: four ordered keyword sets (investment > deal/contract >
\* capital/disclosure > sales/performance); the first set with a keyword in
\* the text gives the tag, else the general tag; no policy tag is returned.
C9_FourOrderedSets ==
    pc = "done" =>
        /\ ret = FirstMatch(title, FourRules)
        /\ ret \in {TAG_INVEST, TAG_DEAL, TAG_CAPITAL, TAG_SALES, TAG_GENERAL}

\* a text with keywords of two sets: mae-chul (sales) and chul-ja (capital)
\* overlap in "mae chul ja"; the earlier set, capital, wins
C9_Witness ==
    /\ pc = "done"
    /\ title = <<"k_mae","k_chul","k_ja">>
    /\ ret = TAG_CAPITAL

(***************************************************************************)
(* importance_score called on (title, company) pairs, the scores kept.     *)
(***************************************************************************)
ScoreTitles ==
    { <<"k_jin","k_chul">>, <<"D","e","a","l">>, <<"k_chul","k_ja">>,
      <<"k_mae","k_chul">>, <<"k_mae">>, <<"k_jin","k_chul","k_ja">> }
ScoreCompanies == { <<"S","K">>, <<"k_han","k_hwa">>, <<"a","n">>, UNIDENTIFIED }

InitScore ==
    /\ pc = "call"
    /\ TextIdle
    /\ scored = <<>>
    /\ IdIdle /\ DedupIdle /\ PickIdle /\ FetchIdle

Score ==
    /\ pc = "call"
    /\ Len(scored) < MaxScored
    /\ \E t \in ScoreTitles, c \in ScoreCompanies :
          scored' = Append(scored,
                           [title |-> t, company |-> c, _score |-> importance_score(t, c)])
    /\ UNCHANGED <<pc, textVars, idVars, dedupVars, pickVars, fetchVars>>

NextScore == Score

SpecScore == InitScore /\ [][NextScore]_vars

\* the weight of a tag
TagWeight(tag) ==
    CASE tag = TAG_INVEST  -> 35
      [] tag = TAG_DEAL    -> 25
      [] tag = TAG_CAPITAL -> 20
      [] tag = TAG_SALES   -> 15
      [] OTHER             -> 5

IsPriority(c) == InList(c, priority_companies)

\* C8: a row of a priority company scores strictly higher than a row of a
\* non-priority company whatever the two tags; between two rows of the same
\* priority status the one with the heavier tag scores at least as high.
C8_PriorityDominatesTag ==
    \A i, j \in 1..Len(scored) :
        LET a == scored[i]
            b == scored[j]
        IN  /\ (IsPriority(a.company) /\ ~IsPriority(b.company)) => a._score > b._score
            /\ (IsPriority(a.company) = IsPriority(b.company)
                  /\ TagWeight(classify_tag(a.title)) >= TagWeight(classify_tag(b.title)))
                  => a._score >= b._score

\* a priority row with the lightest tag beside a non-priority row with the
\* heaviest one
C8_Witness ==
    \E i, j \in 1..Len(scored) :
        /\ IsPriority(scored[i].company) /\ classify_tag(scored[i].title) = TAG_GENERAL
        /\ ~IsPriority(scored[j].company) /\ classify_tag(scored[j].title) = TAG_INVEST

(***************************************************************************)
(* dedup_similar called on every short list of rows.                       *)
(***************************************************************************)
\* signatures: one empty, and token sets that overlap in 7 of 8 (similar),
\* in 6 of 7 (just below the threshold) and in 6 of 8 tokens
DedupSigs == { {}, 1..7, 1..8, 2..8, 1..6 }
DedupWhen == {1, 2}
DedupScores == {5, 35}

\* the rows of a call; "id" tells apart rows that are otherwise equal
DedupInputs ==
    UNION { [1..n -> [_when_sort : DedupWhen, _score : DedupScores, _sig : DedupSigs]] :
            n \in 0..MaxDedupRows }

WithIds(rs) ==
    [i \in 1..Len(rs) |->
        [id |-> i, _when_sort |-> rs[i]._when_sort, _score |-> rs[i]._score,
         _sig |-> rs[i]._sig]]

InitDedup ==
    /\ pc = "call"
    /\ TextIdle /\ ScoreIdle /\ IdIdle /\ PickIdle /\ FetchIdle
    /\ \E rs \in DedupInputs : rows = WithIds(rs)
    /\ kept = <<>>

DedupSimilar ==
    /\ pc = "call"
    /\ kept' = dedup_similar(rows)
    /\ pc' = "done"
    /\ UNCHANGED <<rows, textVars, scoreVars, idVars, pickVars, fetchVars>>

NextDedup == DedupSimilar

SpecDedup == InitDedup /\ [][NextDedup]_vars

\* a is ranked before b: more recent, or as recent and more important, or
\* equal in both and earlier in the input
RankedBefore(a, b) ==
    \/ a._when_sort > b._when_sort
    \/ (a._when_sort = b._when_sort /\ a._score > b._score)
    \/ (a._when_sort = b._when_sort /\ a._score = b._score /\ a.id < b.id)

RankedAtOrBefore(a, b) == a = b \/ RankedBefore(a, b)

\* C2: the result holds rows of the input, each once, in rank order; a row is
\* discarded exactly when a kept row ranked before it has similarity >= 0.86
\* with it; the top-ranked row is kept; every discarded row has a kept
\* near-duplicate ranked no lower than itself.
C2_KeepsHighestRanked ==
    pc = "done" =>
        /\ Elems(kept) \subseteq Elems(rows)
        /\ \A i, j \in 1..Len(kept) : i < j => RankedBefore(kept[i], kept[j])
        /\ \A r \in Elems(rows) :
               r \notin Elems(kept) <=>
                   \E k \in Elems(kept) :
                       RankedBefore(k, r) /\ IsNearDuplicate(r._sig, k._sig)
        /\ \A r \in Elems(rows) :
               (\A o \in Elems(rows) : RankedAtOrBefore(r, o)) => r \in Elems(kept)
        /\ \A r \in Elems(rows) \ Elems(kept) :
               \E k \in Elems(kept) :
                   RankedAtOrBefore(k, r) /\ IsNearDuplicate(r._sig, k._sig)

\* three rows given in ascending rank, the middle one similar to both others
\* and those two not similar to each other: the top-ranked is kept, the
\* middle one discarded, the last kept
C2_Witness ==
    /\ pc = "done"
    /\ Len(rows) = 3
    /\ rows[1]._sig = 1..7 /\ rows[2]._sig = 1..8 /\ rows[3]._sig = 2..8
    /\ rows[1]._when_sort = 1 /\ rows[2]._when_sort = 1 /\ rows[3]._when_sort = 2
    /\ rows[1]._score = 5 /\ rows[2]._score = 35
    /\ kept = <<rows[3], rows[1]>>

EmptySigRows(q) == {r \in Elems(q) : r._sig = {}}

\* C3: jaccard is 1 for two empty sets and 0 when exactly one is empty; of the
\* rows with an empty signature exactly the highest-ranked one is kept, and
\* it is kept whatever rows with a non-empty signature were kept before it.
C3_EmptySignatures ==
    /\ \A a, b \in Elems(rows) :
          /\ (a._sig = {} /\ b._sig = {}) => jaccard(a._sig, b._sig) = <<1, 1>>
          /\ ((a._sig = {}) # (b._sig = {})) => jaccard(a._sig, b._sig)[1] = 0
    /\ pc = "done" =>
          /\ Cardinality(EmptySigRows(kept)) <= 1
          /\ \A r \in EmptySigRows(rows) :
                 r \in Elems(kept) <=>
                     \A o \in EmptySigRows(rows) : RankedAtOrBefore(r, o)

\* two rows with an empty signature ranked below a kept row with a non-empty
\* one: the first of the two is kept, the second discarded
C3_Witness ==
    /\ pc = "done"
    /\ Len(rows) = 3
    /\ rows[1]._sig = {} /\ rows[2]._sig = {} /\ rows[3]._sig = 1..7
    /\ rows[3]._when_sort = 2 /\ rows[1]._when_sort = 1 /\ rows[2]._when_sort = 1
    /\ rows[2]._score > rows[1]._score
    /\ kept = <<rows[3], rows[2]>>

\* C12: dedup_similar is idempotent and order-stable: applied to its own
\* result it returns that result as a list; the result is in (recency
\* descending, importance descending) order and no two kept rows have
\* similarity >= 0.86, so the final sort of fetch_us_gov_only leaves it as
\* it is.
C12_IdempotentOrderStable ==
    pc = "done" =>
        /\ dedup_similar(kept) = kept
        /\ \A i, j \in 1..Len(kept) : i < j => ~KeyGreater(kept[j], kept[i])
        /\ \A i, j \in 1..Len(kept) :
               i # j => ~IsNearDuplicate(kept[i]._sig, kept[j]._sig)
        /\ SortedDesc(kept) = kept

\* a row was discarded, and the two kept rows have the same date and score
\* and were given in this order: the second pass and the final sort have a
\* tie to keep in place
C12_Witness ==
    /\ pc = "done"
    /\ Len(rows) = 3
    /\ Len(kept) = 2
    /\ KeyEqual(kept[1], kept[2])
    /\ kept[1].id < kept[2].id
    /\ kept[1]._sig = 1..7 /\ kept[2]._sig = 1..6
    /\ dedup_similar(kept) = kept

(***************************************************************************)
(* The exact-dedup loop of fetch_us_gov_only run on two rows.              *)
(***************************************************************************)
IdAlphabet == {"a", " "}
IdTitles == Strings(IdAlphabet, MaxIdTextLen) \cup { <<"a", "|", "|">>, <<"a", "|">> }
IdLinks == { <<"a">>, <<"a", " ">>, <<"|", "|", "a">> }
IdRows == [content : IdTitles, link : IdLinks]

InitId ==
    /\ pc = "loop"
    /\ TextIdle /\ ScoreIdle /\ DedupIdle /\ PickIdle
    /\ sources = <<>> /\ si = 0 /\ items = <<>> /\ ii = 0 /\ fetched = <<>> /\ ClockIdle
    /\ raw_rows \in IdRows \X IdRows
    /\ puts = <<>>
    /\ dedup = <<>>

\* one iteration of "for r in raw_rows"
PutRow ==
    /\ pc = "loop"
    /\ Len(puts) < Len(raw_rows)
    /\ LET r == raw_rows[Len(puts) + 1] IN
          /\ dedup' = DictPut(dedup, make_id(US_GOV, r.content, r.link), r)
          /\ puts' = Append(puts, r)
    /\ UNCHANGED <<pc, raw_rows, sources, si, items, ii, fetched, now, tick, built>>
    /\ UNCHANGED <<textVars, scoreVars, dedupVars, pickVars>>

\* rows = list(dedup.values())
EndPuts ==
    /\ pc = "loop"
    /\ Len(puts) = Len(raw_rows)
    /\ fetched' = DictValues(dedup)
    /\ pc' = "done"
    /\ UNCHANGED <<raw_rows, sources, si, items, ii, puts, dedup, now, tick, built>>
    /\ UNCHANGED <<textVars, scoreVars, dedupVars, pickVars>>

NextId == PutRow \/ EndPuts

SpecId == InitId /\ [][NextId]_vars

IdProviders == { US_GOV, <<"K","O","_","R","S","S">> }

HasBar(x) == \E i \in 1..Len(x) : x[i] = "|"

\* C4 as stated: the map merges two rows only when content and link are
\* identical (provider being the same).
C4_MergesOnlyIdentical ==
    pc = "done" =>
        (Len(fetched) < Len(raw_rows) => raw_rows[1] = raw_rows[2])

\* C4 as amended: the hash depends on the triple through provider,
\* norm_text(title) and norm_text(url) only.  Triples equal after whitespace
\* normalisation get the same hash; triples whose provider, title and url hold
\* no "|" get different hashes whenever the provider, the normalised title or
\* the normalised url differs.  The map therefore merges two rows whose
\* content and link are equal after normalisation (the later row wins), and,
\* "|" apart, only those.
C4_MergesNormalizedEqual ==
    LET a == raw_rows[1]
        b == raw_rows[2]
        normEq == norm_text(a.content) = norm_text(b.content)
                    /\ norm_text(a.link) = norm_text(b.link)
        noBar  == ~HasBar(a.content) /\ ~HasBar(b.content)
                    /\ ~HasBar(a.link) /\ ~HasBar(b.link)
    IN  /\ \A p, q \in IdProviders :
              /\ (p = q /\ normEq) => make_id(p, a.content, a.link) = make_id(q, b.content, b.link)
              /\ (noBar /\ ~(p = q /\ normEq))
                     => make_id(p, a.content, a.link) # make_id(q, b.content, b.link)
        /\ pc = "done" =>
              /\ normEq => fetched = <<b>>
              /\ (noBar /\ ~normEq) => fetched = <<a, b>>
        /\ \A i \in 1..Len(dedup) :
              dedup[i].key = make_id(US_GOV, dedup[i].value.content, dedup[i].value.link)

\* two rows whose contents differ only in whitespace are merged, the later
\* one kept
C4_Witness ==
    /\ pc = "done"
    /\ raw_rows[1].content = <<"a", " ", "a">>
    /\ raw_rows[2].content = <<"a", " ", " ", "a">>
    /\ raw_rows[1].link = raw_rows[2].link
    /\ fetched = <<raw_rows[2]>>

(***************************************************************************)
(* pick_top_company_one_each and pick_other called on a data frame in      *)
(* global sort order: row i is the i-th ranked row.                        *)
(***************************************************************************)
\* a priority list longer than TOP_COMPANY_MAX, for the cap
LongPriority ==
    << <<"P","a">>, <<"P","b">>, <<"P","c">>, <<"P","d">>, <<"P","e">>, <<"P","f">>,
       <<"P","g">>, <<"P","h">>, <<"P","i">>, <<"P","j">>, <<"P","k">> >>

OtherCompanies == { <<"a","n">>, UNIDENTIFIED }

\* frames for the default priority list: every short sequence of companies
ShortFrames ==
    UNION { [1..n -> {priority_companies[k] : k \in 1..3} \cup OtherCompanies] :
            n \in 0..MaxPickRows }

\* frames for the long priority list: its companies in reverse order, any of
\* them left out, after a non-priority row
LongFrames ==
    { LET idx == {i \in 1..Len(LongPriority) : i \in S}
          pos(i) == Cardinality({j \in idx : j > i}) + 1
      IN  << <<"a","n">> >> \o
          [p \in 1..Cardinality(idx) |-> LongPriority[CHOOSE i \in idx : pos(i) = p]]
      : S \in SUBSET (1..Len(LongPriority)) }

Frame(companies, priority) ==
    [i \in 1..Len(companies) |->
        [id |-> i, name |-> company_display(companies[i], priority)]]

InitPick ==
    /\ pc = "call"
    /\ TextIdle /\ ScoreIdle /\ IdIdle /\ DedupIdle /\ FetchIdle
    /\ \/ /\ top_companies = priority_companies
          /\ \E f \in ShortFrames : df = Frame(f, priority_companies)
       \/ /\ top_companies = LongPriority
          /\ \E f \in LongFrames : df = Frame(f, LongPriority)
    /\ other_n \in {1, 2, OTHER_MAX}
    /\ top = <<>>
    /\ other = <<>>

PickTop ==
    /\ pc = "call"
    /\ top' = pick_top_company_one_each(df, top_companies)
    /\ pc' = "picked"
    /\ UNCHANGED <<df, top_companies, other, other_n>>
    /\ UNCHANGED <<textVars, scoreVars, idVars, dedupVars, fetchVars>>

PickOther ==
    /\ pc = "picked"
    /\ other' = pick_other(df, top_companies, other_n)
    /\ pc' = "done"
    /\ UNCHANGED <<df, top_companies, top, other_n>>
    /\ UNCHANGED <<textVars, scoreVars, idVars, dedupVars, fetchVars>>

NextPick == PickTop \/ PickOther

SpecPick == InitPick /\ [][NextPick]_vars

CompanyOf(r) == plain_company(r.name)
PositionIn(c, list) == CHOOSE i \in 1..Len(list) : list[i] = c

\* the priority companies that have a row in d
PresentPriority(d, tops) == {c \in Elems(tops) : \E r \in Elems(d) : CompanyOf(r) = c}

\* C10: the top table holds at most one row per priority company, that
\* company's highest-ranked row, no row of a non-priority company; its rows
\* are ordered by the company's position in the priority list; it has at most
\* TOP_COMPANY_MAX rows (the companies first in the priority list among those
\* present).  The other table holds the first n non-priority rows, in the
\* frame's order.
C10_TopOnePerCompany ==
    /\ pc \in {"picked", "done"} =>
          /\ Len(top) <= TOP_COMPANY_MAX
          /\ \A r \in Elems(top) :
                /\ r \in Elems(df)
                /\ InList(CompanyOf(r), top_companies)
                /\ \A o \in Elems(df) : CompanyOf(o) = CompanyOf(r) => r.id <= o.id
          /\ \A i, j \in 1..Len(top) :
                i < j => PositionIn(CompanyOf(top[i]), top_companies)
                             < PositionIn(CompanyOf(top[j]), top_companies)
          /\ LET present == PresentPriority(df, top_companies) IN
             {CompanyOf(r) : r \in Elems(top)} =
                 {c \in present :
                     Cardinality({b \in present :
                         PositionIn(b, top_companies) < PositionIn(c, top_companies)})
                       < TOP_COMPANY_MAX}
    /\ pc = "done" =>
          LET others == {i \in 1..Len(df) : ~InList(CompanyOf(df[i]), top_companies)} IN
          /\ Len(other) = IF Cardinality(others) < other_n THEN Cardinality(others) ELSE other_n
          /\ \A k \in 1..Len(other) :
                /\ other[k] \in Elems(df)
                /\ other[k].id \in others
                /\ Cardinality({i \in others : i < other[k].id}) = k - 1

\* a non-priority row ranked first, then SK, then the first company of the
\* priority list twice: the top table is that company's first row, then SK's
C10_Witness ==
    /\ pc = "done"
    /\ Len(df) = 4
    /\ CompanyOf(df[1]) = <<"a","n">>
    /\ CompanyOf(df[2]) = priority_companies[2]
    /\ CompanyOf(df[3]) = priority_companies[1]
    /\ CompanyOf(df[4]) = priority_companies[1]
    /\ top = <<df[3], df[2]>>
    /\ other = <<df[1]>>

\* with eleven priority companies present the top table stops at ten
C10_CapReached ==
    /\ pc = "done"
    /\ Cardinality(PresentPriority(df, top_companies)) > TOP_COMPANY_MAX
    /\ Len(top) = TOP_COMPANY_MAX

(***************************************************************************)
(* fetch_us_gov_only called on every short list of sources.  A source      *)
(* carries what its fetch does (response) and the page it returns.         *)
(***************************************************************************)
TnecdHost == <<"www",".","tnecd",".","com">>
OtherHost == <<"news",".","other",".","com">>
GeorgiaHost == <<"www",".","georgia",".","org">>
LookalikeHost == <<"explore","georgia",".","org">>
ExampleHost == <<"www",".","example",".","gov">>

AnchorPlant ==
    [ text |-> <<"S","K"," ","b","u","i","l","d","s"," ","p","l","a","n","t">>,
      parent_text |-> <<"S","K"," ","b","u","i","l","d","s"," ","p","l","a","n","t"," ","1","0",".","0","1",".","2","0","2","6">>,
      url |-> [host |-> TnecdHost, path |-> <<"/","n","e","w","s","/","1">>] ]

AnchorPlantAgain ==
    [ text |-> <<"S","K"," ","b","u","i","l","d","s"," ","p","l","a","n","t">>,
      parent_text |-> <<"S","K"," ","b","u","i","l","d","s"," ","p","l","a","n","t">>,
      url |-> [host |-> TnecdHost, path |-> <<"/","n","e","w","s","/","2">>] ]

AnchorOld ==
    [ text |-> <<"K","i","a"," ","o","p","e","n","s"," ","s","i","t","e">>,
      parent_text |-> <<"0","1",".","1","5",".","2","0","1","5"," ","K","i","a"," ","o","p","e","n","s"," ","s","i","t","e">>,
      url |-> [host |-> TnecdHost, path |-> <<"/","n","e","w","s","/","3">>] ]

AnchorBare ==
    [ text |-> <<"U","S"," ","k_jin","k_chul"," ","k_tu","k_ja"," ","k_hwak","k_jang">>,
      parent_text |-> <<"U","S"," ","k_jin","k_chul"," ","k_tu","k_ja"," ","k_hwak","k_jang">>,
      url |-> [host |-> TnecdHost, path |-> <<"/","n","e","w","s","/","4">>] ]

AnchorBadDay ==
    [ text |-> <<"Q","c","e","l","l","s"," ","h","u","b"," ","o","p","e","n","s">>,
      parent_text |-> <<"Q","c","e","l","l","s"," ","h","u","b"," ","o","p","e","n","s"," ","0","2",".","3","0",".","2","0","2","6">>,
      url |-> [host |-> TnecdHost, path |-> <<"/","n","e","w","s","/","5">>] ]

AnchorPdf ==
    [ text |-> <<"S","K"," ","a","n","n","u","a","l"," ","r","e","p","o","r","t">>,
      parent_text |-> <<"S","K"," ","a","n","n","u","a","l"," ","r","e","p","o","r","t">>,
      url |-> [host |-> TnecdHost, path |-> <<"/","n","e","w","s","/","r",".","P","D","F">>] ]

AnchorDocs ==
    [ text |-> <<"S","K"," ","a","n","n","u","a","l"," ","r","e","p","o","r","t">>,
      parent_text |-> <<"S","K"," ","a","n","n","u","a","l"," ","r","e","p","o","r","t">>,
      url |-> [host |-> TnecdHost, path |-> <<"/","d","o","c","s","/","n","e","w","s","/","r">>] ]

AnchorElsewhere ==
    [ text |-> <<"L","G"," ","i","n","v","e","s","t","s"," ","i","n"," ","G","A">>,
      parent_text |-> <<"0","2",".","0","4",".","2","0","2","6"," ","L","G"," ","i","n","v","e","s","t","s"," ","i","n"," ","G","A">>,
      url |-> [host |-> OtherHost, path |-> <<"/","n","e","w","s","/","a">>] ]

AnchorGeorgia ==
    [ text |-> <<"J","a","n"," ","5",","," ","2","0","2","6"," "," ","H","a","n","w","h","a"," ","Q","c","e","l","l","s"," ","e","x","p","a","n","d","s">>,
      parent_text |-> <<>>,
      url |-> [host |-> GeorgiaHost, path |-> <<"/","p","r","e","s","s","-","r","e","l","e","a","s","e","s","/","q">>] ]

AnchorLookalike ==
    [ text |-> <<"K","i","a"," ","o","p","e","n","s"," ","G","e","o","r","g","i","a"," ","s","i","t","e">>,
      parent_text |-> <<>>,
      url |-> [host |-> LookalikeHost, path |-> <<"/","p","r","e","s","s","-","r","e","l","e","a","s","e","s","/","k">>] ]

ArticleDated ==
    [ a |-> [text |-> <<"S","K"," ","b","u","i","l","d","s"," ","p","l","a","n","t">>, url |-> [host |-> ExampleHost, path |-> <<"/","p","/","1">>]],
      time |-> <<"2","0","2","6","-","1","0","-","0","1">> ]

ArticleNoDate ==
    [ a |-> [text |-> <<"K","i","a"," ","o","p","e","n","s"," ","s","i","t","e">>, url |-> [host |-> ExampleHost, path |-> <<"/","p","/","2">>]],
      time |-> <<" ","N","/","A"," ">> ]

ArticlePdf ==
    [ a |-> [text |-> <<"S","K"," ","a","n","n","u","a","l"," ","r","e","p","o","r","t">>, url |-> [host |-> ExampleHost, path |-> <<"/","p","/","r",".","p","d","f">>]],
      time |-> NoText ]

Responses == {"ok", "timeout", "http_error", "parse_error"}

SourcePages ==
    { [ name |-> "TNECD", allow_external |-> FALSE,
        url |-> [host |-> TnecdHost, path |-> <<"/","n","e","w","s">>],
        page |-> [anchors |-> <<AnchorPlant, AnchorElsewhere, AnchorPdf>>,
                  articles |-> <<>>] ],
      [ name |-> "TNECD+", allow_external |-> TRUE,
        url |-> [host |-> TnecdHost, path |-> <<"/","n","e","w","s">>],
        page |-> [anchors |-> <<AnchorElsewhere, AnchorPlantAgain>>,
                  articles |-> <<>>] ],
      [ name |-> "TN", allow_external |-> FALSE,
        url |-> [host |-> <<"tnecd",".","com">>, path |-> <<"/">>],
        page |-> [anchors |-> <<AnchorPlantAgain, AnchorOld>>,
                  articles |-> <<>>] ],
      [ name |-> "TN archive", allow_external |-> FALSE,
        url |-> [host |-> <<"tnecd",".","com">>, path |-> <<"/","o">>],
        page |-> [anchors |-> <<AnchorOld, AnchorDocs, AnchorBare, AnchorOld, AnchorBadDay>>,
                  articles |-> <<>>] ],
      [ name |-> "GA", allow_external |-> FALSE,
        url |-> [host |-> <<"georgia",".","org">>, path |-> <<"/">>],
        page |-> [anchors |-> <<AnchorGeorgia, AnchorLookalike>>,
                  articles |-> <<>>] ],
      [ name |-> "GOV", allow_external |-> FALSE,
        url |-> [host |-> ExampleHost, path |-> <<"/">>],
        page |-> [anchors |-> <<AnchorPlant>>,
                  articles |-> <<ArticleDated, [a |-> Absent, time |-> NoText],
                                 ArticlePdf, ArticleNoDate>>] ] }

SourceWithoutUrl ==
    [ name |-> "unset", allow_external |-> FALSE, url |-> Absent,
      page |-> [anchors |-> <<>>, articles |-> <<>>], response |-> "ok" ]

SourceKinds ==
    { [ name |-> p.name, allow_external |-> p.allow_external, url |-> p.url,
        page |-> p.page, response |-> r ] : p \in SourcePages, r \in Responses }
        \cup { SourceWithoutUrl }

SourceLists == UNION { [1..n -> SourceKinds] : n \in 0..MaxSources }

\* 2026-11-01 09:00:00 UTC
ClockStart == DaysFromCivil([y |-> 2026, m |-> 11, d |-> 1]) * DAY + 9 * 3600

InitFetch ==
    /\ pc = "sources"
    /\ TextIdle /\ ScoreIdle /\ IdIdle /\ DedupIdle /\ PickIdle
    /\ sources \in SourceLists
    /\ si = 1
    /\ items = <<>>
    /\ ii = 0
    /\ raw_rows = <<>>
    /\ fetched = <<>>
    /\ now = ClockStart
    /\ tick \in {0, 1}
    /\ built = <<>>

\* "if not url: continue"
SourceNoUrl ==
    /\ pc = "sources"
    /\ si <= Len(sources)
    /\ sources[si].url = Absent
    /\ si' = si + 1
    /\ UNCHANGED <<pc, sources, items, ii, raw_rows, fetched, now, tick, built>>
    /\ UNCHANGED <<textVars, scoreVars, idVars, dedupVars, pickVars>>

\* the try block raises: "except Exception: continue"
SourceFails ==
    /\ pc = "sources"
    /\ si <= Len(sources)
    /\ sources[si].url # Absent
    /\ ~FetchSucceeded(sources[si])
    /\ si' = AfterException(si, Len(sources))
    /\ now' = now + tick
    /\ UNCHANGED <<pc, sources, items, ii, raw_rows, fetched, tick, built>>
    /\ UNCHANGED <<textVars, scoreVars, idVars, dedupVars, pickVars>>

\* the try block returns the items of the page
SourceOk ==
    /\ pc = "sources"
    /\ si <= Len(sources)
    /\ sources[si].url # Absent
    /\ FetchSucceeded(sources[si])
    /\ items' = guess_items_from_page(sources[si].page, sources[si].url, MAX_ITEMS)
    /\ pc' = "items"
    /\ ii' = 1
    /\ now' = now + tick
    /\ UNCHANGED <<sources, si, raw_rows, fetched, tick, built>>
    /\ UNCHANGED <<textVars, scoreVars, idVars, dedupVars, pickVars>>

\* an item whose link is external: "continue"
ItemSkipped ==
    /\ pc = "items"
    /\ ii <= Len(items)
    /\ IsExternal(sources[si], items[ii])
    /\ ii' = ii + 1
    /\ UNCHANGED <<pc, sources, si, items, raw_rows, fetched, now, tick, built>>
    /\ UNCHANGED <<textVars, scoreVars, idVars, dedupVars, pickVars>>

\* an item becomes a row of raw_rows
ItemRow ==
    /\ pc = "items"
    /\ ii <= Len(items)
    /\ ~IsExternal(sources[si], items[ii])
    /\ raw_rows' = Append(raw_rows, BuildRow(sources[si], items[ii], now))
    /\ built' = Append(built, [dt |-> ItemDate(items[ii].date_text), at |-> now,
                               src |-> si, link |-> items[ii].link])
    /\ now' = now + tick
    /\ ii' = ii + 1
    /\ UNCHANGED <<pc, sources, si, items, fetched, tick>>
    /\ UNCHANGED <<textVars, scoreVars, idVars, dedupVars, pickVars>>

\* the items of the source are exhausted: next source
ItemsEnd ==
    /\ pc = "items"
    /\ ii > Len(items)
    /\ pc' = "sources"
    /\ si' = si + 1
    /\ ii' = 0
    /\ UNCHANGED <<sources, items, raw_rows, fetched, now, tick, built>>
    /\ UNCHANGED <<textVars, scoreVars, idVars, dedupVars, pickVars>>

\* the sources are exhausted: exact dedup, dedup_similar, final sort, return
Return ==
    /\ pc = "sources"
    /\ si > Len(sources)
    /\ fetched' = FinishRows(raw_rows)
    /\ pc' = "done"
    /\ UNCHANGED <<sources, si, items, ii, raw_rows, now, tick, built>>
    /\ UNCHANGED <<textVars, scoreVars, idVars, dedupVars, pickVars>>

NextFetch ==
    SourceNoUrl \/ SourceFails \/ SourceOk \/ ItemSkipped \/ ItemRow \/ ItemsEnd \/ Return

SpecFetch == InitFetch /\ [][NextFetch]_vars

\* the clock readings of the rows built so far, and of a row not built the
\* current clock
Readings == [i \in 1..Len(built) |-> built[i].at]
ReadingAt(log) == IF log = <<>> THEN now ELSE Head(log)
RestOf(log) == IF log = <<>> THEN <<>> ELSE Tail(log)

\* the rows the inner loop appends for the items of a page that was fetched
RECURSIVE RowsOfItems(_, _, _)
RowsOfItems(src, its, log) ==
    IF its = <<>> THEN <<>>
    ELSE IF IsExternal(src, Head(its)) THEN RowsOfItems(src, Tail(its), log)
    ELSE <<BuildRow(src, Head(its), ReadingAt(log))>>
             \o RowsOfItems(src, Tail(its), RestOf(log))

\* raw_rows of a call on a list in which no source fails
RECURSIVE RowsOfSources(_, _)
RowsOfSources(srcs, log) ==
    IF srcs = <<>> THEN <<>>
    ELSE LET rs == IF Head(srcs).url = Absent THEN <<>>
                   ELSE RowsOfItems(Head(srcs),
                                    guess_items_from_page(Head(srcs).page, Head(srcs).url,
                                                          MAX_ITEMS),
                                    log)
         IN  rs \o RowsOfSources(Tail(srcs), SubSeq(log, Len(rs) + 1, Len(log)))

Fails(src) == src.url # Absent /\ src.response # "ok"

\* the list with the failing sources absent
WithoutFailing(srcs) == SelectSeq(srcs, LAMBDA src : ~Fails(src))

FailingSourcesSkipped ==
    /\ \A k \in 1..Len(raw_rows) :
           \E i \in 1..Len(sources) :
               ~Fails(sources[i]) /\ raw_rows[k].source = sources[i].name
                   /\ sources[i].response = "ok"
    /\ pc = "done" =>
           fetched = FinishRows(RowsOfSources(WithoutFailing(sources), Readings))

\* before the call has returned one of its statements can be executed
CanStep ==
    \/ pc = "done"
    \/ pc = "sources" /\ si > Len(sources)
    \/ /\ pc = "sources" /\ si \in 1..Len(sources)
       /\ \/ sources[si].url = Absent
          \/ Fails(sources[si])
          \/ FetchSucceeded(sources[si])
    \/ pc = "items" /\ si \in 1..Len(sources) /\ ii \in 1..(Len(items) + 1)

\* the statements still to execute at most: two per source and one per link
\* of its page (a page yields at most one item per link),
\* and the return
RECURSIVE WorkFrom(_)
WorkFrom(k) ==
    IF k > Len(sources) THEN 0
    ELSE Len(sources[k].page.anchors) + Len(sources[k].page.articles) + 2 + WorkFrom(k + 1)

StepsLeft ==
    IF pc = "done" THEN 0
    ELSE IF pc = "sources" THEN 1 + WorkFrom(si)
    ELSE 1 + WorkFrom(si + 1) + (Len(items) - ii + 1) + 1

\* C1: whichever sources fail (timeout, HTTP error status, parsing exception),
\* the call goes on until it returns (it is never stuck and every step brings
\* the return nearer), and it returns exactly the rows of a call
\* on the list without the failing sources (each row built at the same clock
\* reading): a failing source adds no row and the rows of the other sources are
\* collected as if it were not there.
C1_FailingSourcesSkipped ==
    [](FailingSourcesSkipped /\ CanStep) /\ [][StepsLeft' < StepsLeft]_vars

\* a failing source with items on its page stands before a source that is
\* fetched, and the call has returned rows
C1_Witness ==
    /\ pc = "done"
    /\ Len(sources) = 2
    /\ Fails(sources[1]) /\ sources[1].page.anchors # <<>>
    /\ sources[2].response = "ok"
    /\ fetched # <<>>

\* the rows built without a date (dt is None)
UndatedRows == {raw_rows[k] : k \in {j \in 1..Len(raw_rows) : built[j].dt = Absent}}
DatedRows == {raw_rows[k] : k \in {j \in 1..Len(raw_rows) : built[j].dt # Absent}}

\* C5: in the returned list a row without a parsed date comes after every row
\* that has one, whatever that date is.
C5_UndatedSortLast ==
    pc = "done" =>
        \A i, j \in 1..Len(fetched) :
            fetched[i] \in UndatedRows /\ fetched[j] \in DatedRows => j < i


(***************************************************************************)
(* Links of a source that does not allow external links.                   *)
(***************************************************************************)
\* the host is the host of the source or a subdomain of it
RelatedHost(src_host, link_host) ==
    link_host = src_host \/ EndsWith(link_host, <<".">> \o src_host)

\* a link to a binary document: a .pdf, /docs/ or /default-source/ path
BinaryDocument(u) ==
    \/ EndsWith(Lower(u.path), <<".","p","d","f">>)
    \/ Contains(Lower(u.path), <<"/","d","o","c","s","/">>)
    \/ Contains(Lower(u.path), <<"/","d","e","f","a","u","l","t","-","s","o","u","r","c","e","/">>)

\* the rows built so far from sources that do not allow external links
StrictBuilt == {k \in 1..Len(built) : ~sources[built[k].src].allow_external}

\* C11: no row built from a source that does not allow external links has a
\* link to an unrelated external domain (a host that is neither the host of
\* the source nor a subdomain of it) or to a binary document; what is never
\* built is never returned.
C11_NoUnrelatedOrBinaryLinks ==
    /\ Len(built) = Len(raw_rows)
    /\ \A k \in StrictBuilt :
           /\ raw_rows[k].link = UrlText(built[k].link)
           /\ RelatedHost(Netloc(sources[built[k].src].url), Netloc(built[k].link))
           /\ ~BinaryDocument(built[k].link)
    /\ \A r \in Elems(fetched) : r \in Elems(raw_rows)

\* the returned list holds a row of the source "GA" (georgia.org, external
\* links not allowed) whose link is on exploregeorgia.org
C11_LookalikeReturned ==
    /\ pc = "done"
    /\ \E k \in StrictBuilt :
           /\ Netloc(sources[built[k].src].url) = <<"georgia",".","org">>
           /\ Netloc(built[k].link) = LookalikeHost
           /\ raw_rows[k] \in Elems(fetched)

\* binary documents never become rows, whatever the source allows
NoBinaryRows == \A k \in 1..Len(built) : ~BinaryDocument(built[k].link)

\* a link on another host is dropped when its host does not contain the host
\* of the source
OtherHostDropped ==
    \A k \in StrictBuilt : Netloc(built[k].link) # OtherHost

====
